---- MODULE Spec2Model ----
(***************************************************************************)
(* Section splitting, shot generation and shot aggregation of the          *)
(* audiobook-animator pipeline (src/src/split-sections/core.ts and         *)
(* src/src/gen-shots/core.ts), modelled as a state machine over the files  *)
(* of one chapter directory.                                               *)
(*                                                                         *)
(* Files are modelled by their parsed JSON value: JSON.stringify followed  *)
(* by JSON.parse returns the same integers, strings and doubles, so a file *)
(* holds exactly the value that was written.  A file that may be absent is *)
(* a sequence of length 0 (absent) or 1 (its content).                     *)
(*                                                                         *)
(* The raw-response files (sections.res.json, section<id>.shots.res.json)  *)
(* are written by a run and read back only by that same run; the response  *)
(* handed to validation is that content.  Spec leaves them out of the      *)
(* state; SpecRaw keeps them in resFiles and adds the call of              *)
(* cleanSectionShots on a response file that an earlier run has left.      *)
(* splitSections writes below the director directory and generateShots     *)
(* reads <chapter>/sections; the model is the layout in which both name    *)
(* the same sections.json (director ".").                                  *)
(***************************************************************************)
EXTENDS Integers, Sequences, FiniteSets, TLC

(***************************************************************************)
(* Bounds of the model.                                                    *)
(***************************************************************************)
\* number of segments of the chapter transcript
NumSegs == 3
\* largest number of items (sections, or shots of one section) in a proposal
MaxItems == 2
\* how far outside the transcript's id range a proposed bound may lie
Slack == 1
\* significant bits of the binary floating-point format standing for double
MantissaBits == 3

(***************************************************************************)
(* Floating point.  Times are doubles in the code; here a value is an      *)
(* integer number of quanta and every arithmetic result is rounded to      *)
(* MantissaBits significant bits, ties to even, as IEEE-754 does with 53.  *)
(***************************************************************************)
RECURSIVE Pow2(_)
Pow2(k) == IF k <= 0 THEN 1 ELSE 2 * Pow2(k - 1)

RECURSIVE BitLen(_)
BitLen(n) == IF n = 0 THEN 0 ELSE 1 + BitLen(n \div 2)

RoundNat(n) ==
  IF BitLen(n) <= MantissaBits THEN n
  ELSE LET q == Pow2(BitLen(n) - MantissaBits)
           m == n \div q
           r == n % q
       IN  IF 2 * r < q THEN m * q
           ELSE IF 2 * r > q THEN (m + 1) * q
           ELSE IF m % 2 = 0 THEN m * q ELSE (m + 1) * q

FRound(x) == IF x < 0 THEN -RoundNat(-x) ELSE RoundNat(x)

\* a + b and a - b on doubles
FAdd(a, b) == FRound(a + b)
FSub(a, b) == FRound(a - b)

(***************************************************************************)
(* JavaScript array helpers.  Arrays are 0-based in the code and 1-based   *)
(* here: element k of an array is element k + 1 of the sequence.           *)
(***************************************************************************)
Min(a, b) == IF a < b THEN a ELSE b
Max(a, b) == IF a > b THEN a ELSE b

\* Array.prototype.slice(from, to): a negative index counts from the end
Slice(arr, from, to) ==
  LET n  == Len(arr)
      lo == IF from < 0 THEN Max(n + from, 0) ELSE Min(from, n)
      hi == IF to < 0 THEN Max(n + to, 0) ELSE Min(to, n)
  IN  IF lo < hi THEN SubSeq(arr, lo + 1, hi) ELSE <<>>

\* Array.prototype.join(' ') on texts that are sequences of tokens
RECURSIVE JoinTexts(_)
JoinTexts(texts) ==
  IF Len(texts) = 0 THEN <<>>
  ELSE IF Len(texts) = 1 THEN texts[1]
  ELSE texts[1] \o <<" ">> \o JoinTexts(Tail(texts))

Absent == <<>>
Present(content) == <<content>>

(***************************************************************************)
(* The transcript (transcript.json): segments with contiguous ids, each    *)
(* with start < end, in increasing time order.  Two timings are used, one  *)
(* with back-to-back segments of very unequal length and one with pauses   *)
(* between segments; every time is a representable floating-point value.   *)
(***************************************************************************)
SkewTimes == << <<0, 1>>, <<1, 2>>, <<2, 10>>, <<10, 12>>, <<12, 16>>, <<16, 20>> >>
PauseTimes == << <<0, 1>>, <<2, 3>>, <<4, 6>>, <<6, 7>>, <<8, 10>>, <<12, 14>> >>
Words == << "a", "b", "c", "d", "e", "f" >>

MakeTranscript(firstId, times) ==
  [ duration |-> times[NumSegs][2],
    segments |-> [ k \in 1..NumSegs |->
                     [ id    |-> firstId + k - 1,
                       start |-> times[k][1],
                       end   |-> times[k][2],
                       text  |-> << Words[k] >> ] ] ]

Transcripts == { MakeTranscript(0, SkewTimes), MakeTranscript(1, PauseTimes) }

(***************************************************************************)
(* Proposals of the external service: an ordered list of at most MaxItems  *)
(* items {title, startSegment, endSegment} with integer bounds.  Nothing   *)
(* is assumed about the bounds; the title of the k-th item is "T<k>".      *)
(* (description is copied next to title and is left out.)                  *)
(***************************************************************************)
Titles == << "T1", "T2", "T3", "T4" >>

BoundValues ==
  LET ids == UNION { { seg.id : seg \in { t.segments[k] : k \in 1..NumSegs } } : t \in Transcripts }
      lo  == CHOOSE x \in ids : \A y \in ids : x <= y
      hi  == CHOOSE x \in ids : \A y \in ids : x >= y
  IN  (lo - Slack)..(hi + Slack)

Item(k, b) == [ title |-> Titles[k], startSegment |-> b[1], endSegment |-> b[2] ]

Proposals ==
  UNION { { [ k \in 1..n |-> Item(k, bs[k]) ] : bs \in [ 1..n -> BoundValues \X BoundValues ] }
          : n \in 0..MaxItems }

(***************************************************************************)
(* State.                                                                  *)
(***************************************************************************)
VARIABLES
  transcript,      \* transcript.json (read-only input)
  sectionsFile,    \* sections/sections.json, absent or present
  sectionShots,    \* sections/section<id>.shots.json by id, absent or present
  shotsFile,       \* shots.json of the chapter, absent or present
  run,             \* the all-sections call of generateShots of the running command, if any
  result,          \* what the command being run has done: the operation and its error, if any
  call,            \* a validator applied on its own: its arguments and what it threw
  resFiles,        \* sections.res.json and section<id>.shots.res.json, where they are kept
  prompts,         \* imgprompts.json, absent or present
  images,          \* images.json of the visual directory, absent or present
  job              \* the running generateImagePrompts, generatePrompt or generateImages call, if any

\* the files and calls of the image stages, which no section or shot operation touches
mediaVars == << prompts, images, job >>

vars == << transcript, sectionsFile, sectionShots, shotsFile, run, result, call, resFiles, mediaVars >>

\* ids for which a per-section shots file can exist, and ids a caller may name
SectionIds == 0..(MaxItems - 1)
CallerIds == 0..MaxItems

\* no raw-response file
NoResFiles == [ sections |-> Absent, shots |-> [ id \in SectionIds |-> Absent ] ]

NoError == <<>>
Outcome(op, id, err) == [ op |-> op, id |-> id, err |-> err ]
\* no command is running (each cli.ts runs one command and calls process.exit)
Idle == Outcome("none", -1, NoError)
Failed(r) == r.err # NoError
Succeeded(r, op) == r.op = op /\ r.err = NoError

(***************************************************************************)
(* split-sections/core.ts                                                  *)
(***************************************************************************)
\* variant: the coverage error gives the two ids the other way round
CoverageError_Swapped(actual, expected) ==
  << [ kind |-> "coverage", actual |-> expected, expected |-> actual ] >>

GapError(title, expected, actual) ==
  << [ kind |-> "gap", title |-> title, expected |-> expected, actual |-> actual ] >>
CoverageError(actual, expected) ==
  << [ kind |-> "coverage", actual |-> actual, expected |-> expected ] >>
EmptyError(title, startSegment, endSegment) ==
  << [ kind |-> "empty", title |-> title,
       startSegment |-> startSegment, endSegment |-> endSegment ] >>

\* variant: the gap error reports lastEndSegment as the expected id
RECURSIVE SectionWalk_ExpectsLastEnd(_, _, _)
SectionWalk_ExpectsLastEnd(sections, i, lastEndSegment) ==
  IF i > Len(sections) THEN [ err |-> NoError, lastEndSegment |-> lastEndSegment ]
  ELSE IF sections[i].startSegment # lastEndSegment + 1
       THEN [ err |-> GapError(sections[i].title, lastEndSegment, sections[i].startSegment),
              lastEndSegment |-> lastEndSegment ]
       ELSE SectionWalk_ExpectsLastEnd(sections, i + 1, sections[i].endSegment)

\* the for-loop of validateSectionBoundaries from item i on: the first gap
\* error, or the value of lastEndSegment after the loop
RECURSIVE SectionWalk(_, _, _)
SectionWalk(sections, i, lastEndSegment) ==
  IF i > Len(sections) THEN [ err |-> NoError, lastEndSegment |-> lastEndSegment ]
  ELSE IF sections[i].startSegment # lastEndSegment + 1
       THEN [ err |-> GapError(sections[i].title, lastEndSegment + 1, sections[i].startSegment),
              lastEndSegment |-> lastEndSegment ]
       ELSE SectionWalk(sections, i + 1, sections[i].endSegment)

\* variant: the coverage check after the loop is missing
validateSectionBoundaries_NoCoverage(response, segments) ==
  SectionWalk(response, 1, segments[1].id - 1).err

\* variant: a response without sections is not checked
validateSectionBoundaries_AcceptsEmpty(response, segments) ==
  LET walk == SectionWalk(response, 1, segments[1].id - 1)
  IN  IF Len(response) = 0 THEN NoError
      ELSE IF walk.err # NoError THEN walk.err
      ELSE IF walk.lastEndSegment # segments[Len(segments)].id
           THEN CoverageError(walk.lastEndSegment, segments[Len(segments)].id)
           ELSE NoError

\* the error thrown by validateSectionBoundaries, or NoError
validateSectionBoundaries(response, segments) ==
  LET walk == SectionWalk(response, 1, segments[1].id - 1)
  IN  IF walk.err # NoError THEN walk.err
      ELSE IF walk.lastEndSegment # segments[Len(segments)].id
           THEN CoverageError(walk.lastEndSegment, segments[Len(segments)].id)
           ELSE NoError

\* variant: end is taken from the first segment of the section
processSection_EndOfFirst(parsed, segments) ==
  LET sectionSegments ==
        SelectSeq(segments, LAMBDA seg : seg.id >= parsed.startSegment /\ seg.id <= parsed.endSegment)
  IN  [ title        |-> parsed.title,
        start        |-> sectionSegments[1].start,
        end          |-> sectionSegments[1].end,
        duration     |-> FSub(sectionSegments[1].end, sectionSegments[1].start),
        startSegment |-> parsed.startSegment,
        endSegment   |-> parsed.endSegment,
        segmentCount |-> Len(sectionSegments),
        segments     |-> sectionSegments ]

\* one section of processSections: the segments with id in the parsed range
processSection(parsed, segments) ==
  LET sectionSegments ==
        SelectSeq(segments, LAMBDA seg : seg.id >= parsed.startSegment /\ seg.id <= parsed.endSegment)
  IN  [ title        |-> parsed.title,
        start        |-> sectionSegments[1].start,
        end          |-> sectionSegments[Len(sectionSegments)].end,
        duration     |-> FSub(sectionSegments[Len(sectionSegments)].end, sectionSegments[1].start),
        startSegment |-> parsed.startSegment,
        endSegment   |-> parsed.endSegment,
        segmentCount |-> Len(sectionSegments),
        segments     |-> sectionSegments ]

NoSegmentsFor(parsed, segments) ==
  \A k \in 1..Len(segments) :
     ~(segments[k].id >= parsed.startSegment /\ segments[k].id <= parsed.endSegment)

\* processSections: the error of the first section without segments, or the sections
processSections(response, segments) ==
  LET bad == { i \in 1..Len(response) : NoSegmentsFor(response[i], segments) }
  IN  IF bad # {}
      THEN LET i == CHOOSE x \in bad : \A y \in bad : x <= y
           IN  [ err |-> EmptyError(response[i].title, response[i].startSegment, response[i].endSegment),
                 sections |-> <<>> ]
      ELSE [ err |-> NoError,
             sections |-> [ i \in 1..Len(response) |-> processSection(response[i], segments) ] ]

\* variant: sections.json is written before the boundaries are validated
splitSections_WritesBeforeValidation(response, t) ==
  LET invalid   == validateSectionBoundaries(response, t.segments)
      processed == processSections(response, t.segments)
  IN  IF processed.err # NoError THEN [ err |-> processed.err, finalSections |-> Absent ]
      ELSE [ err |-> invalid,
             finalSections |-> Present([ duration     |-> t.duration,
                                         sectionCount |-> Len(processed.sections),
                                         sections     |-> processed.sections ]) ]

\* splitSections on a transcript, the service answering `response`: the error
\* thrown, if any, and what it has written to sections.json, if anything
splitSections(response, t) ==
  LET invalid   == validateSectionBoundaries(response, t.segments)
      processed == processSections(response, t.segments)
  IN  IF invalid # NoError THEN [ err |-> invalid, finalSections |-> Absent ]
      ELSE IF processed.err # NoError THEN [ err |-> processed.err, finalSections |-> Absent ]
      ELSE [ err |-> NoError,
             finalSections |-> Present([ duration     |-> t.duration,
                                         sectionCount |-> Len(processed.sections),
                                         sections     |-> processed.sections ]) ]

\* what splitSections can do on each transcript, over every answer of the service
SplitOutcomes ==
  [ t \in Transcripts |-> { splitSections(response, t) : response \in Proposals } ]

\* the split-sections command
SplitSections ==
  /\ result = Idle
  /\ \E done \in SplitOutcomes[transcript] :
       /\ result' = Outcome("splitSections", -1, done.err)
       /\ sectionsFile' = IF done.finalSections = Absent THEN sectionsFile ELSE done.finalSections
  /\ UNCHANGED << transcript, sectionShots, shotsFile, run, call, resFiles, mediaVars >>

(***************************************************************************)
(* gen-shots/core.ts                                                       *)
(***************************************************************************)
MissingError(sectionId) == << [ kind |-> "missing", sectionId |-> sectionId ] >>
SectionNotFound(sectionId) == << [ kind |-> "sectionNotFound", sectionId |-> sectionId ] >>
NoSuchFile == << [ kind |-> "ENOENT" ] >>
NoSectionsProcessed == << [ kind |-> "noSectionsProcessed" ] >>

processShot(segments, title, startSegment, endSegment) ==
  [ shotId       |-> 0,
    title        |-> title,
    text         |-> JoinTexts([ k \in 1..Len(segments) |-> segments[k].text ]),
    start        |-> segments[1].start,
    end          |-> segments[Len(segments)].end,
    duration     |-> FSub(segments[Len(segments)].end, segments[1].start),
    startSegment |-> startSegment,
    endSegment   |-> endSegment,
    segmentCount |-> Len(segments) ]

\* variant: the continuity check in the loop is missing
RECURSIVE ShotWalk_NoContinuity(_, _, _)
ShotWalk_NoContinuity(shots, i, lastEndSegment) ==
  IF i > Len(shots) THEN [ err |-> NoError, lastEndSegment |-> lastEndSegment ]
  ELSE ShotWalk_NoContinuity(shots, i + 1, shots[i].endSegment)

\* the for-loop of validateShotBoundaries from item i on
RECURSIVE ShotWalk(_, _, _)
ShotWalk(shots, i, lastEndSegment) ==
  IF i > Len(shots) THEN [ err |-> NoError, lastEndSegment |-> lastEndSegment ]
  ELSE IF shots[i].startSegment # lastEndSegment + 1
       THEN [ err |-> GapError(shots[i].title, lastEndSegment + 1, shots[i].startSegment),
              lastEndSegment |-> lastEndSegment ]
       ELSE ShotWalk(shots, i + 1, shots[i].endSegment)

\* variant: only a last shot that ends before endSegment is rejected
validateShotBoundaries_ShortOnly(shots, startSegment, endSegment) ==
  LET walk == ShotWalk(shots, 1, startSegment - 1)
  IN  IF walk.err # NoError THEN walk.err
      ELSE IF walk.lastEndSegment < endSegment
           THEN CoverageError(walk.lastEndSegment, endSegment)
           ELSE NoError

\* the shots in ascending order of startSegment
RECURSIVE SortedByStart(_)
SortedByStart(shots) ==
  IF Len(shots) <= 1 THEN shots
  ELSE LET m == CHOOSE i \in 1..Len(shots) :
                  \A j \in 1..Len(shots) :
                     shots[i].startSegment < shots[j].startSegment
                       \/ (shots[i].startSegment = shots[j].startSegment /\ i <= j)
       IN  << shots[m] >> \o SortedByStart(SubSeq(shots, 1, m - 1) \o SubSeq(shots, m + 1, Len(shots)))

\* variant: the shots are sorted by startSegment before the walk
validateShotBoundaries_SortsFirst(shots, startSegment, endSegment) ==
  LET walk == ShotWalk(SortedByStart(shots), 1, startSegment - 1)
  IN  IF walk.err # NoError THEN walk.err
      ELSE IF walk.lastEndSegment # endSegment
           THEN CoverageError(walk.lastEndSegment, endSegment)
           ELSE NoError

\* the error thrown by validateShotBoundaries, or NoError
validateShotBoundaries(shots, startSegment, endSegment) ==
  LET walk == ShotWalk(shots, 1, startSegment - 1)
  IN  IF walk.err # NoError THEN walk.err
      ELSE IF walk.lastEndSegment # endSegment
           THEN CoverageError(walk.lastEndSegment, endSegment)
           ELSE NoError

\* variant: the slice ends one segment late
shotSegments_EndsLate(shot, section) ==
  Slice(section.segments,
        shot.startSegment - section.startSegment,
        shot.endSegment - section.startSegment + 2)

\* variant: the slice starts one segment late
shotSegments_StartsLate(shot, section) ==
  Slice(section.segments,
        shot.startSegment - section.startSegment + 1,
        shot.endSegment - section.startSegment + 1)

\* the segments of the section that cleanSectionShots hands to processShot
shotSegments(shot, section) ==
  Slice(section.segments,
        shot.startSegment - section.startSegment,
        shot.endSegment - section.startSegment + 1)

\* variant: totalSegmentCount is advanced by one per shot
RECURSIVE MaterializeShots_CountsShots(_, _, _, _)
MaterializeShots_CountsShots(response, section, i, acc) ==
  IF i > Len(response) THEN acc
  ELSE IF Len(shotSegments(response[i], section)) = 0
       THEN [ acc EXCEPT !.err = EmptyError(response[i].title, response[i].startSegment,
                                            response[i].endSegment) ]
       ELSE LET processedShot == processShot(shotSegments(response[i], section), response[i].title,
                                             response[i].startSegment, response[i].endSegment)
            IN  MaterializeShots_CountsShots(response, section, i + 1,
                  [ err               |-> NoError,
                    shots             |-> Append(acc.shots, processedShot),
                    totalDuration     |-> FAdd(acc.totalDuration, processedShot.duration),
                    totalSegmentCount |-> acc.totalSegmentCount + 1 ])

\* the materialization loop of cleanSectionShots from item i on; acc holds
\* shots, totalDuration and totalSegmentCount
RECURSIVE MaterializeShots(_, _, _, _)
MaterializeShots(response, section, i, acc) ==
  IF i > Len(response) THEN acc
  ELSE IF Len(shotSegments(response[i], section)) = 0
       THEN [ acc EXCEPT !.err = EmptyError(response[i].title, response[i].startSegment,
                                            response[i].endSegment) ]
       ELSE LET processedShot == processShot(shotSegments(response[i], section), response[i].title,
                                             response[i].startSegment, response[i].endSegment)
            IN  MaterializeShots(response, section, i + 1,
                  [ err               |-> NoError,
                    shots             |-> Append(acc.shots, processedShot),
                    totalDuration     |-> FAdd(acc.totalDuration, processedShot.duration),
                    totalSegmentCount |-> acc.totalSegmentCount + processedShot.segmentCount ])

\* variant: ids are numbered from one
NumberShots_OneBased(shots, offset) ==
  [ k \in 1..Len(shots) |-> [ shots[k] EXCEPT !.shotId = offset + k ] ]

\* variant: the running offset is not added
NumberShots_IgnoresOffset(shots, offset) ==
  [ k \in 1..Len(shots) |-> [ shots[k] EXCEPT !.shotId = k - 1 ] ]

\* shots.map((shot, index) => { shot.shotId = shotIdOffset + index; return shot }),
\* with offset 0 in cleanSectionShots
NumberShots(shots, offset) ==
  [ k \in 1..Len(shots) |-> [ shots[k] EXCEPT !.shotId = offset + (k - 1) ] ]

\* cleanSectionShots on a section of sections.json: the error thrown, if any,
\* and what it has written to section<id>.shots.json, if anything
cleanSectionShots(response, section) ==
  LET invalid == validateShotBoundaries(response, section.startSegment, section.endSegment)
      done    == MaterializeShots(response, section, 1,
                   [ err |-> NoError, shots |-> <<>>, totalDuration |-> 0, totalSegmentCount |-> 0 ])
  IN  IF invalid # NoError THEN [ err |-> invalid, shotsData |-> Absent ]
      ELSE IF done.err # NoError THEN [ err |-> done.err, shotsData |-> Absent ]
      ELSE [ err |-> NoError,
             shotsData |-> Present([ duration     |-> done.totalDuration,
                                     segmentCount |-> done.totalSegmentCount,
                                     shotCount    |-> Len(done.shots),
                                     shots        |-> NumberShots(done.shots, 0) ]) ]

\* the sections a sections.json can hold
PossibleSections ==
  UNION { { done.finalSections[1].sections[i] : i \in 1..Len(done.finalSections[1].sections) }
          : done \in { o \in UNION { SplitOutcomes[t] : t \in Transcripts } : o.finalSections # Absent } }

\* what cleanSectionShots can do on each section, over every answer of the service
CleanOutcomes ==
  [ section \in PossibleSections |->
      { cleanSectionShots(response, section) : response \in Proposals } ]

\* genSectionShots followed by cleanSectionShots for one section id
GenCleanSection(sectionId) ==
  IF sectionsFile = Absent
  THEN /\ result' = Outcome("genSectionShots", sectionId, NoSuchFile)
       /\ UNCHANGED sectionShots
  ELSE IF sectionId + 1 > Len(sectionsFile[1].sections)
  THEN /\ result' = Outcome("genSectionShots", sectionId, SectionNotFound(sectionId))
       /\ UNCHANGED sectionShots
  ELSE \E cleaned \in CleanOutcomes[sectionsFile[1].sections[sectionId + 1]] :
         /\ result' = Outcome("cleanSectionShots", sectionId, cleaned.err)
         /\ sectionShots' = IF cleaned.shotsData = Absent THEN sectionShots
                            ELSE [ sectionShots EXCEPT ![sectionId] = cleaned.shotsData ]

\* variant: totalSegmentCount is overwritten by each file instead of added to
RECURSIVE CombineWalk_OverwritesSegmentCount(_, _, _)
CombineWalk_OverwritesSegmentCount(count, k, acc) ==
  IF k >= count THEN acc
  ELSE IF sectionShots[k] = Absent THEN [ acc EXCEPT !.err = MissingError(k) ]
  ELSE LET file == sectionShots[k][1]
       IN  CombineWalk_OverwritesSegmentCount(count, k + 1,
             [ err               |-> NoError,
               allShots          |-> acc.allShots \o NumberShots(file.shots, acc.shotIdOffset),
               shotIdOffset      |-> acc.shotIdOffset + Len(file.shots),
               totalDuration     |-> FAdd(acc.totalDuration, file.duration),
               totalSegmentCount |-> file.segmentCount ])

\* variant: a section without a shots file is skipped
RECURSIVE CombineWalk_SkipsMissing(_, _, _)
CombineWalk_SkipsMissing(count, k, acc) ==
  IF k >= count THEN acc
  ELSE IF sectionShots[k] = Absent THEN CombineWalk_SkipsMissing(count, k + 1, acc)
  ELSE LET file == sectionShots[k][1]
       IN  CombineWalk_SkipsMissing(count, k + 1,
             [ err               |-> NoError,
               allShots          |-> acc.allShots \o NumberShots(file.shots, acc.shotIdOffset),
               shotIdOffset      |-> acc.shotIdOffset + Len(file.shots),
               totalDuration     |-> FAdd(acc.totalDuration, file.duration),
               totalSegmentCount |-> acc.totalSegmentCount + file.segmentCount ])

\* the loop of combineShots over section ids k, k + 1, ..., count - 1
RECURSIVE CombineWalk(_, _, _)
CombineWalk(count, k, acc) ==
  IF k >= count THEN acc
  ELSE IF sectionShots[k] = Absent THEN [ acc EXCEPT !.err = MissingError(k) ]
  ELSE LET file == sectionShots[k][1]
       IN  CombineWalk(count, k + 1,
             [ err               |-> NoError,
               allShots          |-> acc.allShots \o NumberShots(file.shots, acc.shotIdOffset),
               shotIdOffset      |-> acc.shotIdOffset + Len(file.shots),
               totalDuration     |-> FAdd(acc.totalDuration, file.duration),
               totalSegmentCount |-> acc.totalSegmentCount + file.segmentCount ])

\* variant: the shots are appended to those of an existing shots.json
combineShots_AppendsToExisting ==
  IF sectionsFile = Absent THEN [ err |-> NoSuchFile, combinedShots |-> Absent ]
  ELSE LET old  == IF shotsFile = Absent THEN <<>> ELSE shotsFile[1].shots
           done == CombineWalk(Len(sectionsFile[1].sections), 0,
                     [ err |-> NoError, allShots |-> old, shotIdOffset |-> Len(old),
                       totalDuration |-> 0, totalSegmentCount |-> 0 ])
       IN  IF done.err # NoError THEN [ err |-> done.err, combinedShots |-> Absent ]
           ELSE [ err |-> NoError,
                  combinedShots |-> Present([ duration     |-> done.totalDuration,
                                              segmentCount |-> done.totalSegmentCount,
                                              shotCount    |-> Len(done.allShots),
                                              shots        |-> done.allShots ]) ]

\* combineShots: the error thrown, if any, and what it has written to
\* shots.json, if anything
combineShots ==
  IF sectionsFile = Absent THEN [ err |-> NoSuchFile, combinedShots |-> Absent ]
  ELSE LET done == CombineWalk(Len(sectionsFile[1].sections), 0,
                     [ err |-> NoError, allShots |-> <<>>, shotIdOffset |-> 0,
                       totalDuration |-> 0, totalSegmentCount |-> 0 ])
       IN  IF done.err # NoError THEN [ err |-> done.err, combinedShots |-> Absent ]
           ELSE [ err |-> NoError,
                  combinedShots |-> Present([ duration     |-> done.totalDuration,
                                              segmentCount |-> done.totalSegmentCount,
                                              shotCount    |-> Len(done.allShots),
                                              shots        |-> done.allShots ]) ]

\* the number of shots in the files of sections 0..id-1
RECURSIVE ShotsStoredBefore(_)
ShotsStoredBefore(id) ==
  IF id = 0 THEN 0 ELSE ShotsStoredBefore(id - 1) + Len(sectionShots[id - 1][1].shots)

DoCombine ==
  /\ result' = Outcome("combineShots", -1, combineShots.err)
  /\ shotsFile' = IF combineShots.combinedShots = Absent THEN shotsFile
                  ELSE combineShots.combinedShots

\* variant: the renumbered shots are written back to the per-section files
CombineShots_WritesBackIds ==
  /\ result = Idle
  /\ DoCombine
  /\ sectionShots' =
       IF combineShots.combinedShots = Absent THEN sectionShots
       ELSE [ id \in SectionIds |->
                IF id < Len(sectionsFile[1].sections)
                THEN Present([ sectionShots[id][1] EXCEPT
                                 !.shots = NumberShots(@, ShotsStoredBefore(id)) ])
                ELSE sectionShots[id] ]
  /\ UNCHANGED << transcript, sectionsFile, run, call, resFiles, mediaVars >>

\* the combine command
CombineShots ==
  /\ result = Idle
  /\ DoCombine
  /\ UNCHANGED << transcript, sectionsFile, sectionShots, run, call, resFiles, mediaVars >>

\* generateShots with a section id
GenerateShotsSection(sectionId) ==
  /\ result = Idle
  /\ GenCleanSection(sectionId)
  /\ UNCHANGED << transcript, sectionsFile, shotsFile, run, call, resFiles, mediaVars >>

\* generateShots without a section id, up to the loop over the section ids
GenerateShotsAllBegin ==
  /\ result = Idle
  /\ IF sectionsFile = Absent
     THEN /\ result' = Outcome("generateShots", -1, NoSuchFile)
          /\ UNCHANGED run
     ELSE /\ run' = Present([ next |-> 0, count |-> Len(sectionsFile[1].sections),
                              outstanding |-> {}, over |-> FALSE ])
          /\ result' = Outcome("generateShots", -1, NoError)
  /\ UNCHANGED << transcript, sectionsFile, sectionShots, shotsFile, call, resFiles, mediaVars >>

\* variant: the requests of all remaining sections are issued together
IssueRequests_FanOut(next, count) == next..(count - 1)

\* the section ids whose proposal the loop requests when it reaches id `next`
IssueRequests(next, count) == { next }

\* one iteration of its loop, for section run.next, up to the awaited request
\* to the service
GenerateShotsAllRequest ==
  /\ run # Absent
  /\ ~run[1].over
  /\ run[1].next < run[1].count
  /\ run[1].outstanding = {}
  /\ run' = Present([ run[1] EXCEPT !.outstanding = IssueRequests(run[1].next, run[1].count) ])
  /\ UNCHANGED << transcript, sectionsFile, sectionShots, shotsFile, result, call, resFiles, mediaVars >>

\* variant: a section that fails is skipped and the loop goes on
GenerateShotsAllSection_GoesOnAfterFailure ==
  /\ run # Absent
  /\ ~run[1].over
  /\ run[1].next < run[1].count
  /\ run[1].next \in run[1].outstanding
  /\ GenCleanSection(run[1].next)
  /\ run' = Present([ run[1] EXCEPT !.next = @ + 1, !.outstanding = @ \ { run[1].next } ])
  /\ UNCHANGED << transcript, sectionsFile, shotsFile, call, resFiles, mediaVars >>

\* the rest of the iteration, from the answer of the service on; an error
\* ends the run
GenerateShotsAllSection ==
  /\ run # Absent
  /\ ~run[1].over
  /\ run[1].next < run[1].count
  /\ run[1].next \in run[1].outstanding
  /\ GenCleanSection(run[1].next)
  /\ run' = IF Failed(result')
            THEN Present([ run[1] EXCEPT !.over = TRUE, !.outstanding = {} ])
            ELSE Present([ run[1] EXCEPT !.next = @ + 1, !.outstanding = @ \ { run[1].next } ])
  /\ UNCHANGED << transcript, sectionsFile, shotsFile, call, resFiles, mediaVars >>

\* after the loop: nothing processed, or combineShots
GenerateShotsAllCombine ==
  /\ run # Absent
  /\ ~run[1].over
  /\ run[1].next >= run[1].count
  /\ IF run[1].count = 0
     THEN /\ result' = Outcome("generateShots", -1, NoSectionsProcessed)
          /\ UNCHANGED shotsFile
     ELSE DoCombine
  /\ run' = Present([ run[1] EXCEPT !.over = TRUE ])
  /\ UNCHANGED << transcript, sectionsFile, sectionShots, call, resFiles, mediaVars >>

\* the command has reported its outcome and its process exits
Exit ==
  /\ result # Idle
  /\ IF run = Absent THEN TRUE ELSE run[1].over
  /\ result' = Idle
  /\ run' = Absent
  /\ UNCHANGED << transcript, sectionsFile, sectionShots, shotsFile, call, resFiles, mediaVars >>

Init ==
  /\ transcript \in Transcripts
  /\ sectionsFile = Absent
  /\ sectionShots = [ id \in SectionIds |-> Absent ]
  /\ shotsFile = Absent
  /\ run = Absent
  /\ result = Idle
  /\ call = Absent
  /\ resFiles = NoResFiles
  /\ prompts = Absent
  /\ images = Absent
  /\ job = Absent

Next ==
  \/ SplitSections
  \/ \E sectionId \in CallerIds : GenerateShotsSection(sectionId)
  \/ CombineShots
  \/ GenerateShotsAllBegin
  \/ GenerateShotsAllRequest
  \/ GenerateShotsAllSection
  \/ GenerateShotsAllCombine
  \/ Exit

Spec == Init /\ [][Next]_vars

(***************************************************************************)
(* The two validators on their own: every proposal against the transcript  *)
(* (sections) and against every id range of the transcript (shots).        *)
(***************************************************************************)
ValidatorCall(fn, items, first, last, err) ==
  Present([ fn |-> fn, items |-> items, first |-> first, last |-> last, err |-> err ])

ValidateSections(response) ==
  /\ call = Absent
  /\ call' = ValidatorCall("validateSectionBoundaries", response,
                           transcript.segments[1].id,
                           transcript.segments[Len(transcript.segments)].id,
                           validateSectionBoundaries(response, transcript.segments))
  /\ UNCHANGED << transcript, sectionsFile, sectionShots, shotsFile, run, result, resFiles, mediaVars >>

ValidateShots(response, startSegment, endSegment) ==
  /\ call = Absent
  /\ call' = ValidatorCall("validateShotBoundaries", response, startSegment, endSegment,
                           validateShotBoundaries(response, startSegment, endSegment))
  /\ UNCHANGED << transcript, sectionsFile, sectionShots, shotsFile, run, result, resFiles, mediaVars >>

SegmentIds == { transcript.segments[k].id : k \in 1..Len(transcript.segments) }

NextValidate ==
  \/ \E response \in Proposals : ValidateSections(response)
  \/ \E response \in Proposals, startSegment \in SegmentIds, endSegment \in SegmentIds :
       startSegment <= endSegment /\ ValidateShots(response, startSegment, endSegment)

SpecValidate == Init /\ [][NextValidate]_vars

(***************************************************************************)
(* The commands with their raw-response files kept: each response file is  *)
(* written once (one splitSections, one generateShots per section), and    *)
(* cleanSectionShots can be called again on a response file that exists.   *)
(* The service is asked for the shots of a further section only while      *)
(* every section asked for so far has got its shots file.                  *)
(***************************************************************************)
\* the split-sections command; sections.res.json is written before validation
SplitSectionsRaw(response) ==
  /\ result = Idle
  /\ resFiles.sections = Absent
  /\ resFiles' = [ resFiles EXCEPT !.sections = Present(response) ]
  /\ LET done == splitSections(response, transcript)
     IN  /\ result' = Outcome("splitSections", -1, done.err)
         /\ sectionsFile' = IF done.finalSections = Absent THEN sectionsFile ELSE done.finalSections
  /\ UNCHANGED << transcript, sectionShots, shotsFile, run, call, mediaVars >>

\* cleanSectionShots(responsePath, sectionsDirPath, sectionId) as a step
CleanFromFile(responseFile, sectionId) ==
  LET cleaned == cleanSectionShots(responseFile, sectionsFile[1].sections[sectionId + 1])
  IN  /\ result' = Outcome("cleanSectionShots", sectionId, cleaned.err)
      /\ sectionShots' = IF cleaned.shotsData = Absent THEN sectionShots
                         ELSE [ sectionShots EXCEPT ![sectionId] = cleaned.shotsData ]

\* variant: the response file is written only for a response that is accepted
GenerateShotsSectionRaw_KeepsAccepted(sectionId, response) ==
  /\ result = Idle
  /\ sectionsFile # Absent
  /\ sectionId + 1 <= Len(sectionsFile[1].sections)
  /\ resFiles.shots[sectionId] = Absent
  /\ \A id \in SectionIds : resFiles.shots[id] # Absent => sectionShots[id] # Absent
  /\ CleanFromFile(response, sectionId)
  /\ resFiles' = IF Failed(result') THEN resFiles
                 ELSE [ resFiles EXCEPT !.shots[sectionId] = Present(response) ]
  /\ UNCHANGED << transcript, sectionsFile, shotsFile, run, call, mediaVars >>

\* generateShots with the id of a section of sections.json: genSectionShots
\* writes the response file, cleanSectionShots reads it back
GenerateShotsSectionRaw(sectionId, response) ==
  /\ result = Idle
  /\ sectionsFile # Absent
  /\ sectionId + 1 <= Len(sectionsFile[1].sections)
  /\ resFiles.shots[sectionId] = Absent
  /\ \A id \in SectionIds : resFiles.shots[id] # Absent => sectionShots[id] # Absent
  /\ resFiles' = [ resFiles EXCEPT !.shots[sectionId] = Present(response) ]
  /\ CleanFromFile(response, sectionId)
  /\ UNCHANGED << transcript, sectionsFile, shotsFile, run, call, mediaVars >>

\* cleanSectionShots called again on the response file of a section
CleanAgain(sectionId) ==
  /\ result = Idle
  /\ sectionsFile # Absent
  /\ sectionId + 1 <= Len(sectionsFile[1].sections)
  /\ resFiles.shots[sectionId] # Absent
  /\ CleanFromFile(resFiles.shots[sectionId][1], sectionId)
  /\ UNCHANGED << transcript, sectionsFile, shotsFile, run, call, resFiles, mediaVars >>

NextRaw ==
  \/ \E response \in Proposals : SplitSectionsRaw(response)
  \/ \E sectionId \in SectionIds, response \in Proposals : GenerateShotsSectionRaw(sectionId, response)
  \/ \E sectionId \in SectionIds : CleanAgain(sectionId)
  \/ CombineShots
  \/ Exit

SpecRaw == Init /\ [][NextRaw]_vars

(***************************************************************************)
(* Properties.                                                             *)
(***************************************************************************)
FirstId == transcript.segments[1].id
LastId == transcript.segments[Len(transcript.segments)].id

\* the inclusive ranges of `items` tile first..last: they chain from first to
\* last and every id of first..last lies in exactly one of them
Chained(items, first, last) ==
  /\ Len(items) >= 1
  /\ items[1].startSegment = first
  /\ \A i \in 1..(Len(items) - 1) : items[i + 1].startSegment = items[i].endSegment + 1
  /\ items[Len(items)].endSegment = last

Covers(item, id) == item.startSegment <= id /\ id <= item.endSegment

Partitions(items, first, last) ==
  /\ Chained(items, first, last)
  /\ \A id \in first..last : Cardinality({ i \in 1..Len(items) : Covers(items[i], id) }) = 1
  /\ \A i \in 1..Len(items) : \A id \in BoundValues : Covers(items[i], id) => id \in first..last

C2_ShotsPartitionSection ==
  Succeeded(result, "cleanSectionShots") =>
    LET section == sectionsFile[1].sections[result.id + 1]
    IN  Partitions(sectionShots[result.id][1].shots, section.startSegment, section.endSegment)

\* the value of lastEnd when the walk reaches item i
LastEndBefore(c, i) == IF i = 1 THEN c.first - 1 ELSE c.items[i - 1].endSegment
Mismatches(c) ==
  { i \in 1..Len(c.items) : c.items[i].startSegment # LastEndBefore(c, i) + 1 }
FirstMismatch(c) == CHOOSE i \in Mismatches(c) : \A j \in Mismatches(c) : i <= j

\* C3: a validator fails with a gap error exactly when some item does not start
\* at lastEnd + 1, and the error is the one of the first such item in the given
\* order: its title, expected = lastEnd + 1 and actual = its startSegment.
C3_GapAtFirstMismatch ==
  call # Absent =>
    LET c == call[1]
    IN  IF Mismatches(c) # {}
        THEN c.err = GapError(c.items[FirstMismatch(c)].title,
                              LastEndBefore(c, FirstMismatch(c)) + 1,
                              c.items[FirstMismatch(c)].startSegment)
        ELSE c.err = NoError \/ c.err[1].kind # "gap"

\* a gap is reported for the second item of a proposal whose first item is in place
C3_Witness ==
  /\ call # Absent
  /\ call[1].err # NoError
  /\ call[1].err[1].kind = "gap"
  /\ call[1].err[1].title = Titles[2]
  /\ call[1].err[1].actual = call[1].err[1].expected + 1

\* C4: when no item is out of place and the last item does not end at the
\* expected last id, the validator fails with a coverage error that reports the
\* expected last id and the last item's endSegment.
C4_CoverageError ==
  call # Absent =>
    LET c == call[1]
    IN  (Mismatches(c) = {} /\ Len(c.items) >= 1 /\ c.items[Len(c.items)].endSegment # c.last)
          => c.err = CoverageError(c.items[Len(c.items)].endSegment, c.last)

\* a two-item proposal without a gap that ends past the expected last id
C4_Witness ==
  /\ call # Absent
  /\ Len(call[1].items) = 2
  /\ call[1].err # NoError
  /\ call[1].err[1].kind = "coverage"
  /\ call[1].err[1].actual > call[1].err[1].expected

\* the per-section shots files that combineShots reads, in the order it reads them
FilesRead == [ k \in 1..Len(sectionsFile[1].sections) |-> sectionShots[k - 1][1] ]

RECURSIVE ShotsBefore(_, _)
ShotsBefore(files, k) == IF k <= 1 THEN 0 ELSE ShotsBefore(files, k - 1) + Len(files[k - 1].shots)

WithoutShotId(shot) == [ shot EXCEPT !.shotId = 0 ]

\* C5: after combineShots succeeds, the shot at index i of the combined list has
\* shotId i, shotCount is the sum of the numbers of shots of the files read, and
\* the list is the concatenation of the files' shot lists in ascending section
\* index, each in its own order, whatever shotId the files store.
C5_CombinedRenumbered ==
  Succeeded(result, "combineShots") =>
    LET combined == shotsFile[1]
        files    == FilesRead
    IN  /\ \A i \in 1..Len(combined.shots) : combined.shots[i].shotId = i - 1
        /\ combined.shotCount = ShotsBefore(files, Len(files) + 1)
        /\ combined.shotCount = Len(combined.shots)
        /\ \A k \in 1..Len(files) : \A j \in 1..Len(files[k].shots) :
             WithoutShotId(combined.shots[ShotsBefore(files, k) + j]) = WithoutShotId(files[k].shots[j])

\* combineShots has combined two files, the second of which holds two shots
C5_Witness ==
  /\ Succeeded(result, "combineShots")
  /\ Len(sectionsFile[1].sections) = 2
  /\ Len(sectionShots[1][1].shots) = 2
  /\ shotsFile[1].shots[Len(shotsFile[1].shots)].shotId = Len(sectionShots[0][1].shots) + 1

\* shots.reduce((sum, shot) => sum + shot.duration, 0) and the like, left to right
RECURSIVE SumDurations(_, _)
SumDurations(items, n) == IF n = 0 THEN 0 ELSE FAdd(SumDurations(items, n - 1), items[n].duration)

RECURSIVE SumSegmentCounts(_, _)
SumSegmentCounts(items, n) ==
  IF n = 0 THEN 0 ELSE SumSegmentCounts(items, n - 1) + items[n].segmentCount

\* C6 as stated: the duration and segmentCount of a combined collection are the
\* sums of the durations and segmentCounts of its shots.
C6_TotalsAreShotSums ==
  Succeeded(result, "combineShots") =>
    LET combined == shotsFile[1]
    IN  /\ combined.duration = SumDurations(combined.shots, Len(combined.shots))
        /\ combined.segmentCount = SumSegmentCounts(combined.shots, Len(combined.shots))

\* C6 as amended: segmentCount is the sum of the shots' segmentCounts; duration
\* is the floating-point sum, in section order, of the durations stored in the
\* per-section files read, each of which is the sum of its own shots' durations.
C6_TotalsAreFileSums ==
  Succeeded(result, "combineShots") =>
    LET combined == shotsFile[1]
        files    == FilesRead
    IN  /\ combined.segmentCount = SumSegmentCounts(combined.shots, Len(combined.shots))
        /\ combined.duration = SumDurations(files, Len(files))
        /\ \A k \in 1..Len(files) :
             files[k].duration = SumDurations(files[k].shots, Len(files[k].shots))

\* a combined collection of three shots whose duration is not the sum of theirs
C6_Witness ==
  /\ Succeeded(result, "combineShots")
  /\ Len(shotsFile[1].shots) = 3
  /\ shotsFile[1].duration # SumDurations(shotsFile[1].shots, 3)

\* C7: every per-section shots file has duration equal to the sum of its shots'
\* durations, segmentCount equal to the sum of their segmentCounts and shotCount
\* equal to the number of shots.
C7_SectionTotals ==
  \A id \in SectionIds :
    sectionShots[id] # Absent =>
      LET file == sectionShots[id][1]
      IN  /\ file.duration = SumDurations(file.shots, Len(file.shots))
          /\ file.segmentCount = SumSegmentCounts(file.shots, Len(file.shots))
          /\ file.shotCount = Len(file.shots)

\* cleanSectionShots has written a file of two shots of different durations
C7_Witness ==
  /\ Succeeded(result, "cleanSectionShots")
  /\ Len(sectionShots[result.id][1].shots) = 2
  /\ sectionShots[result.id][1].shots[1].duration # sectionShots[result.id][1].shots[2].duration

FirstMissing ==
  CHOOSE k \in 0..(Len(sectionsFile[1].sections) - 1) :
    /\ sectionShots[k] = Absent
    /\ \A j \in 0..(k - 1) : sectionShots[j] # Absent

\* C8: when the shots file of some section of sections.json is missing,
\* combineShots fails with the error that names the first missing section and
\* leaves shots.json as it was, also when the files of earlier sections exist.
C8_MissingFileIsFatal ==
  [][ ( /\ result'.op = "combineShots"
        /\ sectionsFile # Absent
        /\ \E k \in 0..(Len(sectionsFile[1].sections) - 1) : sectionShots[k] = Absent )
      => ( /\ result'.err = MissingError(FirstMissing)
           /\ shotsFile' = shotsFile ) ]_vars

\* combineShots has failed on the second section while the first section's file
\* and an earlier shots.json exist
C8_Witness ==
  /\ result = Outcome("combineShots", -1, MissingError(1))
  /\ sectionShots[0] # Absent
  /\ shotsFile # Absent

BoundaryFailure(r) ==
  /\ Failed(r)
  /\ r.err[1].kind \in { "gap", "coverage", "empty" }

\* C9: when validation or materialization fails, the output file is untouched:
\* a failed splitSections leaves sections.json and a failed cleanSectionShots
\* leaves every section<id>.shots.json as it was; and a file that is written
\* reaches the end of its range, so it never holds only a prefix.
C9_FailureLeavesOutput ==
  [][ /\ (result'.op = "splitSections" /\ BoundaryFailure(result'))
           => sectionsFile' = sectionsFile
      /\ (result'.op = "cleanSectionShots" /\ BoundaryFailure(result'))
           => sectionShots' = sectionShots
      /\ sectionsFile' # sectionsFile
           => /\ Succeeded(result', "splitSections")
              /\ sectionsFile'[1].sections[Len(sectionsFile'[1].sections)].endSegment = LastId
      /\ \A id \in SectionIds : sectionShots'[id] # sectionShots[id]
           => /\ Succeeded(result', "cleanSectionShots")
              /\ sectionShots'[id][1].shots[Len(sectionShots'[id][1].shots)].endSegment
                   = sectionsFile[1].sections[id + 1].endSegment ]_vars

\* a re-run of cleanSectionShots has failed on an empty slice for a section
\* whose shots file exists
C9_Witness ==
  /\ result.op = "cleanSectionShots"
  /\ Failed(result)
  /\ result.err[1].kind = "empty"
  /\ sectionShots[result.id] # Absent

\* C10 as stated: whenever combineShots succeeds, the combined list chains from
\* the first to the last segment id of the transcript.
C10_CombinedCoversChapter ==
  Succeeded(result, "combineShots") => Chained(shotsFile[1].shots, FirstId, LastId)

\* C10 as amended: when combineShots succeeds at the end of an all-sections call
\* of generateShots, the combined list chains from the first to the last id.
C10_AllSectionsRunCovers ==
  (run # Absent /\ Succeeded(result, "combineShots"))
    => Chained(shotsFile[1].shots, FirstId, LastId)

\* an all-sections call over two sections has combined three shots
C10_Witness ==
  /\ run # Absent
  /\ Succeeded(result, "combineShots")
  /\ run[1].count = 2
  /\ Len(shotsFile[1].shots) = 3

\* the transcript segments with id in first..last, in id order
SegmentsWithIds(first, last) ==
  SelectSeq(transcript.segments, LAMBDA seg : first <= seg.id /\ seg.id <= last)

\* the item's data is derived from exactly the segments with ids
\* startSegment..endSegment
DerivedFromRange(item) ==
  LET segs == SegmentsWithIds(item.startSegment, item.endSegment)
  IN  /\ Len(segs) >= 1
      /\ item.segmentCount = item.endSegment - item.startSegment + 1
      /\ item.segmentCount = Len(segs)
      /\ item.start = segs[1].start
      /\ item.end = segs[Len(segs)].end
      /\ item.duration = FSub(item.end, item.start)

\* C11: every shot of a file that cleanSectionShots has written derives its
\* data from exactly the segments with ids startSegment..endSegment:
\* segmentCount = endSegment - startSegment + 1, start and end are the start of
\* the first and the end of the last of them, duration = end - start, and text
\* is their texts joined by single spaces.
C11_ShotDataFromRange ==
  Succeeded(result, "cleanSectionShots") =>
    \A i \in 1..Len(sectionShots[result.id][1].shots) :
      LET shot == sectionShots[result.id][1].shots[i]
          segs == SegmentsWithIds(shot.startSegment, shot.endSegment)
      IN  /\ DerivedFromRange(shot)
          /\ shot.text = JoinTexts([ k \in 1..Len(segs) |-> segs[k].text ])

Outside(shot, section) ==
  shot.endSegment < section.startSegment \/ shot.startSegment > section.endSegment

\* C13: whenever the proposal handed to cleanSectionShots contains a shot whose
\* declared range lies outside the section's range, cleanSectionShots fails: a
\* proposal that passes the boundary validation, which runs first, fails with
\* the empty-slice error; and whenever the range of some shot resolves to zero
\* segments of the section, no shots file is written for that section.
C13_OutsideShotIsEmptySlice ==
  [][ result'.op = "cleanSectionShots" =>
        LET response == resFiles'.shots[result'.id][1]
            section  == sectionsFile[1].sections[result'.id + 1]
            invalid  == validateShotBoundaries(response, section.startSegment, section.endSegment)
        IN  /\ (\E i \in 1..Len(response) : Outside(response[i], section))
                 => /\ Failed(result')
                    /\ invalid = NoError => result'.err[1].kind = "empty"
                    /\ sectionShots' = sectionShots
            /\ (\E i \in 1..Len(response) : Len(shotSegments(response[i], section)) = 0)
                 => sectionShots' = sectionShots ]_vars

\* the proposal of the command that has just run, and the id range it had to tile
LastResponse ==
  IF result.op = "splitSections" THEN resFiles.sections[1] ELSE resFiles.shots[result.id][1]
LastFirst ==
  IF result.op = "splitSections" THEN FirstId
  ELSE sectionsFile[1].sections[result.id + 1].startSegment
LastLast ==
  IF result.op = "splitSections" THEN LastId
  ELSE sectionsFile[1].sections[result.id + 1].endSegment
LastWritten ==
  IF result.op = "splitSections"
  THEN (IF sectionsFile = Absent THEN Absent ELSE Present(sectionsFile[1].sections))
  ELSE (IF sectionShots[result.id] = Absent THEN Absent
        ELSE Present(sectionShots[result.id][1].shots))

\* items of non-empty ranges that tile first..last in the given order
Tiling(items, first, last) ==
  /\ Chained(items, first, last)
  /\ \A i \in 1..Len(items) : items[i].startSegment <= items[i].endSegment

SameRange(a, b) == a.startSegment = b.startSegment /\ a.endSegment = b.endSegment

\* the ways in which `items` is a tiling of first..last listed out of order:
\* the orders of its positions, other than the given one, that tile first..last
Reorderings(items, first, last) ==
  { perm \in Permutations(1..Len(items)) :
      /\ \E k \in 1..Len(items) : perm[k] # k
      /\ Tiling([ k \in 1..Len(items) |-> items[perm[k]] ], first, last) }

FirstOutOfPlace(items, perm) ==
  CHOOSE k \in 1..Len(items) : perm[k] # k /\ \A j \in 1..(k - 1) : perm[j] = j

\* C14: a proposal that lists a tiling of two or more items in another order is
\* rejected with a gap or coverage error - a gap error names the first item
\* that is out of place - and nothing is written; and whatever is written lists
\* the sections or shots in the order of the proposal.
C14_OrderIsKept ==
  result.op \in { "splitSections", "cleanSectionShots" } =>
    LET items == LastResponse
    IN  /\ \A perm \in Reorderings(items, LastFirst, LastLast) :
             /\ Failed(result)
             /\ result.err[1].kind \in { "gap", "coverage" }
             /\ result.err[1].kind = "gap"
                  => result.err[1].title = items[FirstOutOfPlace(items, perm)].title
             /\ LastWritten = Absent
        /\ Succeeded(result, result.op) =>
             /\ Len(LastWritten[1]) = Len(items)
             /\ \A i \in 1..Len(items) :
                  /\ LastWritten[1][i].title = items[i].title
                  /\ SameRange(LastWritten[1][i], items[i])

\* cleanSectionShots has rejected the two shots of a tiling listed in reverse
C14_Witness ==
  /\ result.op = "cleanSectionShots"
  /\ Failed(result)
  /\ Len(LastResponse) = 2
  /\ Tiling(<< LastResponse[2], LastResponse[1] >>, LastFirst, LastLast)
  /\ result.err[1].title = Titles[1]

\* C15: in every per-section shots file the shot at index i has shotId i, so the
\* local ids are 0..shotCount-1 in list order.
C15_LocalShotIds ==
  \A id \in SectionIds :
    sectionShots[id] # Absent =>
      /\ sectionShots[id][1].shotCount = Len(sectionShots[id][1].shots)
      /\ \A i \in 1..Len(sectionShots[id][1].shots) :
           sectionShots[id][1].shots[i].shotId = i - 1

\* cleanSectionShots has written a file whose second shot has shotId 1
C15_Witness ==
  /\ Succeeded(result, "cleanSectionShots")
  /\ Len(sectionShots[result.id][1].shots) = 2
  /\ sectionShots[result.id][1].shots[2].shotId = 1

\* C16: in an all-sections call of generateShots at most one request to the
\* service is outstanding, and it is the one of section run.next; a request
\* for section k is issued only when none is outstanding and sections 0..k-1
\* have been handled; and the call moves on from section k only in a step in
\* which the answer for k has been validated, materialized and its shots file
\* written.
C16_OneSectionAtATime ==
  [][ run' # Absent =>
        /\ run'[1].outstanding \subseteq { run'[1].next }
        /\ (run # Absent /\ run'[1].outstanding # {} /\ run[1].outstanding = {})
             => run'[1].next = run[1].next
        /\ (run # Absent /\ run'[1].next # run[1].next)
             => /\ run'[1].next = run[1].next + 1
                /\ run[1].outstanding = { run[1].next }
                /\ run'[1].outstanding = {}
                /\ result' = Outcome("cleanSectionShots", run[1].next, NoError)
                /\ sectionShots'[run[1].next] # Absent
        /\ run = Absent => run'[1].next = 0 /\ run'[1].outstanding = {} ]_vars

\* the request for the second section is outstanding after the first section's
\* shots file has been written
C16_Witness ==
  /\ run # Absent
  /\ run[1].count = 2
  /\ run[1].next = 1
  /\ run[1].outstanding = { 1 }
  /\ sectionShots[0] # Absent

\* C17: cleanSectionShots called again on the response file and sections.json
\* of an earlier call leaves section<id>.shots.json with the same content, and
\* combineShots called again on the same per-section files leaves shots.json
\* with the same content.
C17_RerunWritesTheSame ==
  [][ /\ (result'.op = "cleanSectionShots" /\ resFiles' = resFiles)
           => sectionShots' = sectionShots
      /\ (result'.op = "combineShots" /\ shotsFile # Absent)
           => (Succeeded(result', "combineShots") /\ shotsFile' = shotsFile) ]_vars

\* cleanSectionShots has been called again, after shots.json had been combined,
\* on the response file of a section of two shots
C17_Witness ==
  /\ Succeeded(result, "cleanSectionShots")
  /\ resFiles.shots[result.id] # Absent
  /\ shotsFile # Absent
  /\ Len(sectionShots[result.id][1].shots) = 2

\* C18: no operation writes its inputs: transcript.json is never written; a
\* step of genSectionShots, cleanSectionShots, generateShots or combineShots
\* leaves sections.json as it was; and combineShots leaves every per-section
\* shots file, with its local shotIds, as it was.
C18_InputsAreNotWritten ==
  [][ /\ transcript' = transcript
      /\ result'.op \in { "genSectionShots", "cleanSectionShots", "generateShots", "combineShots" }
           => sectionsFile' = sectionsFile
      /\ result'.op = "combineShots" => sectionShots' = sectionShots ]_vars

\* combineShots has renumbered the first shot of the second section's file,
\* which still holds local id 0
C18_Witness ==
  /\ Succeeded(result, "combineShots")
  /\ Len(sectionsFile[1].sections) = 2
  /\ sectionShots[1][1].shots[1].shotId = 0
  /\ shotsFile[1].shots[Len(sectionShots[0][1].shots) + 1].shotId >= 1

BoundaryOp(r) == r.op \in { "splitSections", "cleanSectionShots" } /\ BoundaryFailure(r)

\* C19 as stated: every gap, coverage and empty-slice error carries the title
\* of the offending section or shot and the expected and actual segment ids.
C19_ErrorsCarryTitleAndIds ==
  BoundaryOp(result) => { "title", "expected", "actual" } \subseteq DOMAIN result.err[1]

\* the first item of the proposal without segments: for splitSections no
\* transcript segment has an id in its range, for cleanSectionShots its slice
\* of the section is empty
WithoutSegments(i) ==
  IF result.op = "splitSections"
  THEN NoSegmentsFor(LastResponse[i], transcript.segments)
  ELSE Len(shotSegments(LastResponse[i], sectionsFile[1].sections[result.id + 1])) = 0
FirstWithoutSegments ==
  CHOOSE i \in 1..Len(LastResponse) : WithoutSegments(i) /\ \A j \in 1..(i - 1) : ~WithoutSegments(j)

\* C19 as amended: a gap error carries the title of the offending item, the
\* expected id and the item's startSegment; an empty-slice error carries the
\* title of the offending item and its declared startSegment and endSegment; a
\* coverage error carries the id at which the last item ended and the expected
\* last id, and no title.
C19_ErrorContents ==
  BoundaryOp(result) =>
    LET items == LastResponse
        c     == [ items |-> items, first |-> LastFirst ]
        err   == result.err[1]
    IN  /\ err.kind = "gap" =>
             /\ DOMAIN err = { "kind", "title", "expected", "actual" }
             /\ err.title = items[FirstMismatch(c)].title
             /\ err.expected = LastEndBefore(c, FirstMismatch(c)) + 1
             /\ err.actual = items[FirstMismatch(c)].startSegment
        /\ err.kind = "coverage" =>
             /\ DOMAIN err = { "kind", "actual", "expected" }
             /\ err.actual = LastEndBefore(c, Len(items) + 1)
             /\ err.expected = LastLast
        /\ err.kind = "empty" =>
             /\ DOMAIN err = { "kind", "title", "startSegment", "endSegment" }
             /\ err.title = items[FirstWithoutSegments].title
             /\ err.startSegment = items[FirstWithoutSegments].startSegment
             /\ err.endSegment = items[FirstWithoutSegments].endSegment

\* cleanSectionShots has failed with a coverage error on a proposal of two shots
C19_Witness ==
  /\ result.op = "cleanSectionShots"
  /\ BoundaryFailure(result)
  /\ result.err[1].kind = "coverage"
  /\ Len(LastResponse) = 2

\* consecutive shots are in time order: each starts before it ends and ends no
\* later than the next one starts
MonotoneInTime(shots) ==
  /\ \A i \in 1..Len(shots) : shots[i].start < shots[i].end
  /\ \A i \in 1..(Len(shots) - 1) : shots[i].end <= shots[i + 1].start

\* C20 as stated: every shots collection that exists, per-section and combined,
\* is monotone in time in list order.
C20_ShotsMonotoneInTime ==
  /\ \A id \in SectionIds : sectionShots[id] # Absent => MonotoneInTime(sectionShots[id][1].shots)
  /\ shotsFile # Absent => MonotoneInTime(shotsFile[1].shots)

\* C20 as amended: every per-section shots collection is monotone in time in
\* list order, and so is the combined collection that combineShots writes at
\* the end of an all-sections call of generateShots.
C20_FreshShotsMonotoneInTime ==
  /\ \A id \in SectionIds : sectionShots[id] # Absent => MonotoneInTime(sectionShots[id][1].shots)
  /\ (run # Absent /\ Succeeded(result, "combineShots")) => MonotoneInTime(shotsFile[1].shots)

\* an all-sections call has combined the shots of two sections, with a pause
\* between the first two shots
C20_Witness ==
  /\ run # Absent
  /\ Succeeded(result, "combineShots")
  /\ run[1].count = 2
  /\ Len(shotsFile[1].shots) >= 3
  /\ shotsFile[1].shots[1].end < shotsFile[1].shots[2].start

\* C21: in an all-sections call of generateShots, shots.json is written only by
\* the combineShots that follows the handling of every section (at least one)
\* in this call; a failure ends the call at once - no further request is
\* issued, combineShots is not run, shots.json and the per-section files stay
\* as they are - and the error stays the outcome of the command until it exits.
C21_AllOrNothing ==
  [][ /\ (run # Absent /\ shotsFile' # shotsFile)
           => /\ run[1].count >= 1
              /\ run[1].next = run[1].count
              /\ \A k \in 0..(run[1].count - 1) : sectionShots[k] # Absent
              /\ Succeeded(result', "combineShots")
      /\ (run' # Absent /\ Failed(result'))
           => /\ run'[1].over
              /\ run'[1].outstanding = {}
              /\ shotsFile' = shotsFile
      /\ (run # Absent /\ run[1].over)
           => /\ run' = Absent
              /\ shotsFile' = shotsFile
              /\ sectionShots' = sectionShots ]_vars

\* an all-sections call over two sections has failed on the second one while an
\* earlier shots.json exists
C21_Witness ==
  /\ run # Absent
  /\ run[1].count = 2
  /\ run[1].over
  /\ result.op = "cleanSectionShots"
  /\ result.id = 1
  /\ Failed(result)
  /\ shotsFile # Absent

\* C22: a proposal without items is rejected with the coverage error, by
\* splitSections and by cleanSectionShots alike, and nothing is written; what
\* is accepted has at least one item.
C22_EmptyProposalRejected ==
  result.op \in { "splitSections", "cleanSectionShots" } =>
    /\ Len(LastResponse) = 0
         => /\ result.err = CoverageError(LastFirst - 1, LastLast)
            /\ LastWritten = Absent
    /\ Succeeded(result, result.op) => (Len(LastResponse) >= 1 /\ Len(LastWritten[1]) >= 1)

\* cleanSectionShots has rejected a proposal without shots
C22_Witness ==
  /\ result.op = "cleanSectionShots"
  /\ Len(LastResponse) = 0
  /\ Failed(result)
  /\ result.err[1].kind = "coverage"

\* the number of segments consumed by the shots before shot i
RECURSIVE ConsumedBefore(_, _)
ConsumedBefore(shots, i) ==
  IF i <= 1 THEN 0 ELSE ConsumedBefore(shots, i - 1) + shots[i - 1].segmentCount

\* shot i is built from the segments of the section that follow those consumed
\* by the shots before it
ConsumesNext(shots, i, section) ==
  LET from == ConsumedBefore(shots, i)
      to   == from + shots[i].segmentCount
  IN  /\ shots[i].segmentCount >= 1
      /\ to <= Len(section.segments)
      /\ shots[i].start = section.segments[from + 1].start
      /\ shots[i].end = section.segments[to].end
      /\ shots[i].text = JoinTexts([ k \in 1..(to - from) |-> section.segments[from + k].text ])

C24_RawResponseKept ==
  [][ /\ result'.op = "splitSections" =>
           /\ resFiles'.sections # Absent
           /\ resFiles'.sections # resFiles.sections
           /\ splitSections(resFiles'.sections[1], transcript).err = result'.err
           /\ Failed(result') => sectionsFile' = sectionsFile
      /\ (result = Idle /\ result'.op = "cleanSectionShots" /\ resFiles.shots[result'.id] = Absent) =>
           /\ resFiles'.shots[result'.id] # Absent
           /\ cleanSectionShots(resFiles'.shots[result'.id][1],
                                 sectionsFile[1].sections[result'.id + 1]).err = result'.err
           /\ Failed(result') => sectionShots' = sectionShots ]_vars

\* generateShots for a section has failed on a gap and its response file holds
\* the rejected proposal of two shots
C24_Witness ==
  /\ result.op = "cleanSectionShots"
  /\ Failed(result)
  /\ result.err[1].kind = "gap"
  /\ resFiles.shots[result.id] # Absent
  /\ Len(resFiles.shots[result.id][1]) = 2
  /\ sectionShots[result.id] = Absent

(***************************************************************************)
(* gen-imgprompts/core.ts.  Texts are sequences of characters.             *)
(***************************************************************************)
\* number of shots of the shots.json that the image stages read
NumShots == 4
\* const maxAttempts = 3
maxAttempts == 3

ShotIds == 0..(NumShots - 1)

\* the vars of the section and shot stages other than shots.json
chapterVars == << transcript, sectionsFile, sectionShots, run, result, call, resFiles >>

\* String.prototype.trim on texts whose only white space is " "
RECURSIVE TrimStart(_)
TrimStart(text) ==
  IF Len(text) = 0 THEN text
  ELSE IF text[1] = " " THEN TrimStart(Tail(text)) ELSE text

RECURSIVE TrimEnd(_)
TrimEnd(text) ==
  IF Len(text) = 0 THEN text
  ELSE IF text[Len(text)] = " " THEN TrimEnd(SubSeq(text, 1, Len(text) - 1)) ELSE text

Trim(text) == TrimEnd(TrimStart(text))

\* what one call of openai.chat.completions.create can do: throw, or answer
\* with content null or a string
Threw(error) == [ kind |-> "threw", error |-> error, content |-> <<>> ]
NullContent == [ kind |-> "null", error |-> "", content |-> <<>> ]
Content(text) == [ kind |-> "content", error |-> "", content |-> text ]

CompletionOutcomes ==
  { Threw("E1"), Threw("E2"), NullContent, Content(<<>>), Content(<< " " >>),
    Content(<< "p" >>), Content(<< " ", "p", " " >>) }

\* !content
NoContent(outcome) == outcome.kind = "null" \/ (outcome.kind = "content" /\ Len(outcome.content) = 0)
AttemptFails(outcome) == outcome.kind = "threw" \/ NoContent(outcome)
\* the error caught by the catch of the attempt
AttemptError(outcome) ==
  IF outcome.kind = "threw" THEN outcome.error ELSE "No content in OpenAI response"

\* a call of generatePrompt: its attempts counter, the outcomes of the calls to
\* the service so far, and how it has ended, if it has
NewPromptCall ==
  [ status |-> "pending", attempts |-> 0, log |-> <<>>, prompt |-> <<>>, error |-> "" ]

\* variant: the last attempt is recognized one attempt late
generatePromptStep_OneMoreAttempt(task, outcome) ==
  IF ~AttemptFails(outcome)
  THEN [ task EXCEPT !.status = "returned", !.log = Append(@, outcome),
                     !.prompt = Trim(outcome.content) ]
  ELSE IF task.attempts + 1 = maxAttempts + 1
  THEN [ task EXCEPT !.status = "threw", !.attempts = @ + 1, !.log = Append(@, outcome),
                     !.error = AttemptError(outcome) ]
  ELSE [ task EXCEPT !.attempts = @ + 1, !.log = Append(@, outcome) ]

\* one iteration of the while loop of generatePrompt, the service doing `outcome`
generatePromptStep(task, outcome) ==
  IF ~AttemptFails(outcome)
  THEN [ task EXCEPT !.status = "returned", !.log = Append(@, outcome),
                     !.prompt = Trim(outcome.content) ]
  ELSE IF task.attempts + 1 = maxAttempts
  THEN [ task EXCEPT !.status = "threw", !.attempts = @ + 1, !.log = Append(@, outcome),
                     !.error = AttemptError(outcome) ]
  ELSE [ task EXCEPT !.attempts = @ + 1, !.log = Append(@, outcome) ]

\* generatePrompt called for one shot
GeneratePromptAttempt(outcome) ==
  /\ job # Absent
  /\ job[1].op = "generatePrompt"
  /\ job[1].task.status = "pending"
  /\ job[1].task.attempts < maxAttempts
  /\ job' = Present([ job[1] EXCEPT !.task = generatePromptStep(@, outcome) ])
  /\ UNCHANGED << chapterVars, shotsFile, prompts, images >>

InitGeneratePrompt ==
  /\ transcript \in Transcripts
  /\ sectionsFile = Absent
  /\ sectionShots = [ id \in SectionIds |-> Absent ]
  /\ shotsFile = Absent
  /\ run = Absent
  /\ result = Idle
  /\ call = Absent
  /\ resFiles = NoResFiles
  /\ prompts = Absent
  /\ images = Absent
  /\ job = Present([ op |-> "generatePrompt", task |-> NewPromptCall ])

NextGeneratePrompt == \E outcome \in CompletionOutcomes : GeneratePromptAttempt(outcome)

SpecGeneratePrompt == InitGeneratePrompt /\ [][NextGeneratePrompt]_vars

\* C29: generatePrompt calls the service at most maxAttempts times; every call
\* but the last has failed (thrown, or answered without content); it returns
\* the trimmed content of the first call that answers with content, and it
\* throws the error of the third call when three calls have failed.
C29_AtMostThreeAttempts ==
  (job # Absent /\ job[1].op = "generatePrompt") =>
    LET task == job[1].task
        n    == Len(task.log)
    IN  /\ n <= maxAttempts
        /\ \A k \in 1..(n - 1) : AttemptFails(task.log[k])
        /\ task.status = "pending" => (n < maxAttempts /\ \A k \in 1..n : AttemptFails(task.log[k]))
        /\ task.status = "returned" =>
             /\ n >= 1
             /\ ~AttemptFails(task.log[n])
             /\ task.prompt = Trim(task.log[n].content)
        /\ task.status = "threw" =>
             /\ n = maxAttempts
             /\ AttemptFails(task.log[n])
             /\ task.error = AttemptError(task.log[n])

\* generatePrompt has thrown the error of its third call, which differs from
\* the error of its first
C29_Witness ==
  /\ job # Absent
  /\ job[1].op = "generatePrompt"
  /\ job[1].task.status = "threw"
  /\ job[1].task.error = "E2"
  /\ job[1].task.log[1] = Threw("E1")

(***************************************************************************)
(* generateImagePrompts.  shots.json holds NumShots shots with the ids     *)
(* 0..NumShots-1; imgprompts.json maps a shot id to its prompt.            *)
(***************************************************************************)
\* the part of shots.json that the image stages read
MediaShots == [ shots |-> [ k \in 1..NumShots |-> [ shotId |-> k - 1 ] ] ]

\* shotsData.shots.map(shot => shot.shotId)
AllShotIds(shotsData) == { shotsData.shots[k].shotId : k \in 1..Len(shotsData.shots) }

\* the entry of a shot in a JSON object keyed by shot id; Absent for no file
\* and for no key
Stored(file, id) == IF file = Absent THEN Absent ELSE file[1][id]

NoEntries == [ id \in ShotIds |-> Absent ]
OldPrompt == << "o" >>
PromptFiles == { Absent } \cup { Present(f) : f \in [ ShotIds -> { Absent, Present(OldPrompt) } ] }

\* what the service does in the runs of generateImagePrompts that are explored
PromptOutcomes == { Threw("E1"), Content(<< " ", "p", " " >>) }

\* the ids that --shots can select: the ids of shots.json and one more
SelectableIds == 0..NumShots

\* generateImagePrompts up to the start of the tasks
GenerateImagePromptsBegin(shotIds) ==
  /\ job = Absent
  /\ shotsFile # Absent
  /\ LET shotsToProcess == { id \in AllShotIds(shotsFile[1]) : id \in shotIds }
         memory == IF prompts = Absent THEN NoEntries ELSE prompts[1]
     IN  job' = Present(
           IF shotsToProcess = {}
           THEN [ op |-> "generateImagePrompts", status |-> "failed", selected |-> {},
                  memory |-> memory, tasks |-> << >>,
                  error |-> "No matching shots found for the provided shot IDs" ]
           ELSE [ op |-> "generateImagePrompts", status |-> "running", selected |-> shotsToProcess,
                  memory |-> memory, tasks |-> [ id \in shotsToProcess |-> NewPromptCall ],
                  error |-> "" ])
  /\ UNCHANGED << chapterVars, shotsFile, prompts, images >>

\* one attempt of the task of a shot; a returned prompt is put in the prompts
\* object, a thrown error is caught and logged
PromptTaskAttempt(id, outcome) ==
  /\ job # Absent
  /\ job[1].op = "generateImagePrompts"
  /\ job[1].status = "running"
  /\ id \in job[1].selected
  /\ job[1].tasks[id].status = "pending"
  /\ job[1].tasks[id].attempts < maxAttempts
  /\ LET task == generatePromptStep(job[1].tasks[id], outcome)
     IN  job' = Present([ job[1] EXCEPT
           !.tasks[id] = task,
           !.memory[id] = IF task.status = "returned" THEN Present(task.prompt) ELSE @ ])
  /\ UNCHANGED << chapterVars, shotsFile, prompts, images >>

AllTasksSettled ==
  \A id \in job[1].selected : job[1].tasks[id].status # "pending"

\* variant: a task that has thrown rejects Promise.all, nothing is written
GenerateImagePromptsFinish_RejectsOnFailure ==
  /\ job # Absent
  /\ job[1].op = "generateImagePrompts"
  /\ job[1].status = "running"
  /\ AllTasksSettled
  /\ prompts' = IF \E id \in job[1].selected : job[1].tasks[id].status = "threw"
                THEN prompts ELSE Present(job[1].memory)
  /\ job' = Present([ job[1] EXCEPT !.status = "done" ])
  /\ UNCHANGED << chapterVars, shotsFile, images >>

\* await Promise.all(tasks); fs.writeFileSync(promptsPath, ...)
GenerateImagePromptsFinish ==
  /\ job # Absent
  /\ job[1].op = "generateImagePrompts"
  /\ job[1].status = "running"
  /\ AllTasksSettled
  /\ prompts' = Present(job[1].memory)
  /\ job' = Present([ job[1] EXCEPT !.status = "done" ])
  /\ UNCHANGED << chapterVars, shotsFile, images >>

InitPrompts ==
  /\ transcript \in Transcripts
  /\ sectionsFile = Absent
  /\ sectionShots = [ id \in SectionIds |-> Absent ]
  /\ shotsFile = Present(MediaShots)
  /\ run = Absent
  /\ result = Idle
  /\ call = Absent
  /\ resFiles = NoResFiles
  /\ prompts \in PromptFiles
  /\ images = Absent
  /\ job = Absent

NextPrompts ==
  \/ \E shotIds \in SUBSET SelectableIds : GenerateImagePromptsBegin(shotIds)
  \/ \E id \in ShotIds, outcome \in PromptOutcomes : PromptTaskAttempt(id, outcome)
  \/ GenerateImagePromptsFinish

SpecPrompts == InitPrompts /\ [][NextPrompts]_vars

PromptsRunFinishes ==
  /\ job # Absent
  /\ job[1].op = "generateImagePrompts"
  /\ job[1].status = "running"
  /\ job'[1].status = "done"

\* C25: imgprompts.json changes only in the step that ends a run of
\* generateImagePrompts; after that step every selected shot whose task
\* returned has the returned prompt, whatever the other tasks did, and every
\* other shot (unselected, or failed after all attempts) has what it had.
C25_OnlySucceededPromptsChange ==
  [][ /\ prompts' # prompts => PromptsRunFinishes
      /\ PromptsRunFinishes =>
           \A id \in ShotIds :
             IF id \in job[1].selected /\ job[1].tasks[id].status = "returned"
             THEN Stored(prompts', id) = Present(job[1].tasks[id].prompt)
             ELSE Stored(prompts', id) = Stored(prompts, id) ]_vars

\* a finished run in which shot 0 failed after all attempts and kept its old
\* prompt, shot 1 got a new prompt, and unselected shot 2 kept its old one
C25_Witness ==
  /\ job # Absent
  /\ job[1].op = "generateImagePrompts"
  /\ job[1].status = "done"
  /\ job[1].selected = { 0, 1 }
  /\ job[1].tasks[0].status = "threw"
  /\ job[1].tasks[1].status = "returned"
  /\ prompts = Present([ id \in ShotIds |->
                  IF id = 1 THEN Present(<< "p" >>)
                  ELSE IF id \in { 0, 2 } THEN Present(OldPrompt) ELSE Absent ])

(***************************************************************************)
(* scripts/add-shot-ids.ts                                                 *)
(***************************************************************************)
\* variant: the ids are numbered from one
addShotIds_OneBased(shotsData) ==
  [ shotsData EXCEPT !.shots =
      [ k \in 1..Len(shotsData.shots) |->
          [ f \in DOMAIN shotsData.shots[k] \cup { "shotId" } |->
              IF f = "shotId" THEN k ELSE shotsData.shots[k][f] ] ] ]

\* { ...shotsData, shots: shotsData.shots.map((shot, index) => ({ ...shot, shotId: index })) }
addShotIds(shotsData) ==
  [ shotsData EXCEPT !.shots =
      [ k \in 1..Len(shotsData.shots) |->
          [ f \in DOMAIN shotsData.shots[k] \cup { "shotId" } |->
              IF f = "shotId" THEN k - 1 ELSE shotsData.shots[k][f] ] ] ]

\* main of the script: shots.json and every section<id>.shots.json that exists
\* is read, passed through addShotIds and written back
AddShotIdsMain ==
  /\ result = Idle
  /\ shotsFile' = IF shotsFile = Absent THEN Absent ELSE Present(addShotIds(shotsFile[1]))
  /\ sectionShots' = [ id \in SectionIds |->
                         IF sectionShots[id] = Absent THEN Absent
                         ELSE Present(addShotIds(sectionShots[id][1])) ]
  /\ result' = Outcome("addShotIds", -1, NoError)
  /\ UNCHANGED << transcript, sectionsFile, run, call, resFiles, mediaVars >>

\* a collection as it is on disk: as the current code wrote it, or as
\* processShot leaves the ids before the numbering (every shotId 0)
OnDisk(kind, file) ==
  IF file = Absent \/ kind = "written" THEN file
  ELSE Present([ file[1] EXCEPT !.shots = [ k \in 1..Len(@) |-> [ @[k] EXCEPT !.shotId = 0 ] ] ])

\* the chapters the script can find: a sections.json written by
\* splitSections, for each of its sections a file written by
\* cleanSectionShots, and no shots.json or the one combineShots writes from
\* these; `call` remembers whether the files are numbered
InitAddShotIds ==
  /\ transcript \in Transcripts
  /\ sectionsFile \in { o.finalSections : o \in { d \in SplitOutcomes[transcript] : d.finalSections # Absent } }
  /\ call \in { Present([ fn |-> "addShotIds", kind |-> kind ]) : kind \in { "written", "unnumbered" } }
  /\ sectionShots \in
       { files \in [ SectionIds -> { Absent } \cup
                       { OnDisk(call[1].kind, o.shotsData) :
                           o \in UNION { CleanOutcomes[section] : section \in PossibleSections } } ] :
           \A id \in SectionIds :
             IF id < Len(sectionsFile[1].sections)
             THEN \E o \in CleanOutcomes[sectionsFile[1].sections[id + 1]] :
                    o.shotsData # Absent /\ files[id] = OnDisk(call[1].kind, o.shotsData)
             ELSE files[id] = Absent }
  /\ shotsFile \in { Absent, OnDisk(call[1].kind, combineShots.combinedShots) }
  /\ run = Absent
  /\ result = Idle
  /\ resFiles = NoResFiles
  /\ prompts = Absent
  /\ images = Absent
  /\ job = Absent

NextAddShotIds ==
  \/ AddShotIdsMain
  \/ Exit

SpecAddShotIds == InitAddShotIds /\ [][NextAddShotIds]_vars

\* what addShotIds may change in a collection: shotId becomes the list index,
\* every other field, the order and the totals are kept, and a second pass
\* changes nothing
OnlyRenumbered(before, after) ==
  /\ (before = Absent) = (after = Absent)
  /\ before # Absent =>
       /\ Len(after[1].shots) = Len(before[1].shots)
       /\ \A k \in 1..Len(before[1].shots) :
            /\ after[1].shots[k].shotId = k - 1
            /\ DOMAIN after[1].shots[k] = DOMAIN before[1].shots[k] \cup { "shotId" }
            /\ \A f \in DOMAIN before[1].shots[k] \ { "shotId" } :
                 after[1].shots[k][f] = before[1].shots[k][f]
       /\ after[1].duration = before[1].duration
       /\ after[1].segmentCount = before[1].segmentCount
       /\ after[1].shotCount = before[1].shotCount
       /\ addShotIds(after[1]) = after[1]

\* C26: a run of the add-shot-ids script only renumbers: in every file shotId
\* becomes the list index and nothing else changes, a further pass is the
\* identity, and files written by cleanSectionShots or combineShots are
\* written back as they were.
C26_AddShotIdsRenumbersOnly ==
  [][ (result = Idle /\ result'.op = "addShotIds") =>
        /\ OnlyRenumbered(shotsFile, shotsFile')
        /\ \A id \in SectionIds : OnlyRenumbered(sectionShots[id], sectionShots'[id])
        /\ call[1].kind = "written" => (shotsFile' = shotsFile /\ sectionShots' = sectionShots) ]_vars

\* the script has run on files written by cleanSectionShots and combineShots,
\* with two shots in a section and three in the chapter
C26_Witness ==
  /\ result.op = "addShotIds"
  /\ call # Absent
  /\ call[1].kind = "written"
  /\ shotsFile # Absent
  /\ Len(shotsFile[1].shots) = 3
  /\ \E id \in SectionIds : sectionShots[id] # Absent /\ Len(sectionShots[id][1].shots) = 2

(***************************************************************************)
(* split-sentences/core.ts                                                 *)
(***************************************************************************)
\* longest segment list given to processSegmentsIntoSentences
MaxSentenceSegs == 4

\* texts of a transcript segment: empty, blank, unterminated, terminated
SegmentTexts ==
  { << >>, << " " >>, << "a" >>, << " ", "a" >>, << "a", "." >>, << "a", "?", " " >>, << "!" >> }

\* the segment lists of a transcript with the given texts
SentenceSegments(texts) ==
  [ k \in 1..Len(texts) |->
      [ id |-> k - 1, text |-> texts[k], start |-> 2 * (k - 1), end |-> 2 * k - 1 ] ]

SentenceInputs ==
  { SentenceSegments(texts) : texts \in UNION { [ 1..n -> SegmentTexts ] : n \in 0..MaxSentenceSegs } }

\* /[.!?]$/.test(text.trim())
hasEndingPunctuation(text) ==
  LET t == Trim(text) IN Len(t) > 0 /\ t[Len(t)] \in { ".", "!", "?" }

NoSegmentsInTranscript == << [ kind |-> "noSegmentsInTranscript" ] >>

NoCurrentSentence == [ text |-> << >>, startSegment |-> -1, segments |-> << >> ]

Sentence(text, sentenceSegments, startSegment, last) ==
  [ text         |-> Trim(text),
    start        |-> sentenceSegments[1].start,
    end          |-> last.end,
    elapsed      |-> FSub(last.end, sentenceSegments[1].start),
    startSegment |-> startSegment,
    endSegment   |-> last.id,
    segmentCount |-> Len(sentenceSegments),
    segments     |-> sentenceSegments ]

\* the loop over segments[i], i = 1.. (i + 1 here), and the push after it
RECURSIVE SentenceWalk(_, _, _, _)
SentenceWalk(segments, i, currentSentence, sentences) ==
  IF i > Len(segments)
  THEN IF currentSentence.text # << >>
       THEN Append(sentences, Sentence(currentSentence.text, currentSentence.segments,
                                       currentSentence.startSegment, segments[Len(segments)]))
       ELSE sentences
  ELSE LET segment == segments[i]
           current == IF currentSentence.text = << >>
                      THEN [ text |-> Trim(segment.text), startSegment |-> segment.id,
                             segments |-> << segment >> ]
                      ELSE [ currentSentence EXCEPT !.text = @ \o segment.text,
                                                    !.segments = Append(@, segment) ]
       IN  IF hasEndingPunctuation(segment.text)
           THEN SentenceWalk(segments, i + 1, NoCurrentSentence,
                  Append(sentences, Sentence(current.text, current.segments,
                                             current.startSegment, segment)))
           ELSE SentenceWalk(segments, i + 1, current, sentences)

processSegmentsIntoSentences(segments) ==
  IF Len(segments) = 0 THEN [ err |-> NoSegmentsInTranscript, sentences |-> << >> ]
  ELSE [ err |-> NoError,
         sentences |-> SentenceWalk(segments, 2, NoCurrentSentence,
                         << Sentence(segments[1].text, << segments[1] >>, segments[1].id, segments[1]) >>) ]

\* processSegmentsIntoSentences called on the segments of a transcript
SplitSentences ==
  /\ call # Absent
  /\ call[1].fn = "processSegmentsIntoSentences"
  /\ ~call[1].done
  /\ LET out == processSegmentsIntoSentences(call[1].segments)
     IN  call' = Present([ call[1] EXCEPT !.done = TRUE, !.err = out.err, !.sentences = out.sentences ])
  /\ UNCHANGED << transcript, sectionsFile, sectionShots, shotsFile, run, result, resFiles, mediaVars >>

InitSentences ==
  /\ transcript \in Transcripts
  /\ sectionsFile = Absent
  /\ sectionShots = [ id \in SectionIds |-> Absent ]
  /\ shotsFile = Absent
  /\ run = Absent
  /\ result = Idle
  /\ call \in { Present([ fn |-> "processSegmentsIntoSentences", segments |-> segments,
                           done |-> FALSE, err |-> NoError, sentences |-> << >> ])
                 : segments \in SentenceInputs }
  /\ resFiles = NoResFiles
  /\ prompts = Absent
  /\ images = Absent
  /\ job = Absent

NextSentences == SplitSentences

SpecSentences == InitSentences /\ [][NextSentences]_vars

\* the segments of the sentences, one list after the other
RECURSIVE SegmentsOfSentences(_)
SegmentsOfSentences(sentences) ==
  IF Len(sentences) = 0 THEN << >>
  ELSE sentences[1].segments \o SegmentsOfSentences(Tail(sentences))

\* C27: for a non-empty segment list the sentences partition the segments in
\* order; the first sentence is the first segment; startSegment and endSegment
\* are the ids of a sentence's first and last segment; and every later
\* sentence ends at its first segment with ending punctuation, only the last
\* sentence may be unterminated.
C27_SentencesPartitionSegments ==
  (call # Absent /\ call[1].fn = "processSegmentsIntoSentences" /\ call[1].done
     /\ Len(call[1].segments) > 0) =>
    LET segments  == call[1].segments
        sentences == call[1].sentences
    IN  /\ call[1].err = NoError
        /\ SegmentsOfSentences(sentences) = segments
        /\ sentences[1].segments = << segments[1] >>
        /\ \A k \in 1..Len(sentences) :
             LET own == sentences[k].segments
             IN  /\ Len(own) > 0
                 /\ sentences[k].startSegment = own[1].id
                 /\ sentences[k].endSegment = own[Len(own)].id
                 /\ k > 1 =>
                      /\ \A j \in 1..(Len(own) - 1) : ~hasEndingPunctuation(own[j].text)
                      /\ k < Len(sentences) => hasEndingPunctuation(own[Len(own)].text)

(***************************************************************************)
(* common/paths.ts: parseIds.  The input is a sequence of characters; an   *)
(* absent input and the empty string are both the empty sequence.          *)
(***************************************************************************)
\* longest input given to parseIds
MaxInputLen == 4

\* the characters of the inputs; without "0" and "+" no input has a hex
\* prefix or a sign that parseInt would read
InputChars == { "1", "3", "-", ",", " ", "x" }

IdInputs == UNION { [ 1..n -> InputChars ] : n \in 0..MaxInputLen }

\* the lists of valid ids: consecutive from 0, with gaps, out of order
IdLists == { << 0, 1, 2, 3 >>, << 1, 3 >>, << 3, 0, 2 >> }

IsDigit(c) == c \in { "0", "1", "2", "3", "4", "5", "6", "7", "8", "9" }

DigitValue(c) ==
  CASE c = "0" -> 0 [] c = "1" -> 1 [] c = "2" -> 2 [] c = "3" -> 3 [] c = "4" -> 4
    [] c = "5" -> 5 [] c = "6" -> 6 [] c = "7" -> 7 [] c = "8" -> 8 [] c = "9" -> 9

RECURSIVE DigitsValue(_)
DigitsValue(digits) ==
  IF Len(digits) = 0 THEN 0
  ELSE 10 * DigitsValue(SubSeq(digits, 1, Len(digits) - 1)) + DigitValue(digits[Len(digits)])

RECURSIVE LeadingDigits(_)
LeadingDigits(text) ==
  IF Len(text) = 0 \/ ~IsDigit(text[1]) THEN << >>
  ELSE << text[1] >> \o LeadingDigits(Tail(text))

\* parseInt on a text without a sign: leading white space is skipped, the
\* longest prefix of digits is read and what follows is ignored; NaN (the
\* empty sequence here) when there is no digit to read
NaN == << >>
parseInt(text) ==
  LET digits == LeadingDigits(TrimStart(text))
  IN  IF Len(digits) = 0 THEN NaN ELSE << DigitsValue(digits) >>

\* String.prototype.split with a one-character separator
RECURSIVE Split(_, _)
Split(text, sep) ==
  IF \A k \in 1..Len(text) : text[k] # sep THEN << text >>
  ELSE LET at == CHOOSE k \in 1..Len(text) :
                   text[k] = sep /\ \A j \in 1..(k - 1) : text[j] # sep
       IN  << SubSeq(text, 1, at - 1) >> \o Split(SubSeq(text, at + 1, Len(text)), sep)

Includes(list, x) == \E k \in 1..Len(list) : list[k] = x

\* Math.max(...allIds) of a non-empty list
MaxOf(allIds) == CHOOSE m \in { allIds[k] : k \in 1..Len(allIds) } :
                   \A k \in 1..Len(allIds) : allIds[k] <= m

generateRange(start, end) == [ i \in 1..(end - start + 1) |-> start + (i - 1) ]

InvalidRange(range) == << [ kind |-> "invalidRangeSyntax", text |-> range ] >>
InvalidStart(text) == << [ kind |-> "invalidStartId", text |-> text ] >>
InvalidEnd(text) == << [ kind |-> "invalidEndId", text |-> text ] >>
InvalidId(text) == << [ kind |-> "invalidId", text |-> text ] >>

parseRange(allIds, range) ==
  LET parts == Split(range, "-")
  IN  IF Len(parts) # 2 THEN [ err |-> InvalidRange(range), ids |-> << >> ]
      ELSE LET start == IF parts[1] # << >> THEN parseInt(Trim(parts[1])) ELSE << 0 >>
               end   == IF parts[2] # << >> THEN parseInt(Trim(parts[2])) ELSE << MaxOf(allIds) >>
           IN  IF start = NaN THEN [ err |-> InvalidStart(parts[1]), ids |-> << >> ]
               ELSE IF end = NaN THEN [ err |-> InvalidEnd(parts[2]), ids |-> << >> ]
               ELSE [ err |-> NoError,
                      ids |-> SelectSeq(generateRange(start[1], end[1]),
                                        LAMBDA id : Includes(allIds, id)) ]

\* the callback of flatMap in parseIds
parsePart(allIds, part) ==
  IF Includes(part, "-") THEN parseRange(allIds, part)
  ELSE LET num == parseInt(part)
       IN  IF num = NaN THEN [ err |-> InvalidId(part), ids |-> << >> ]
           ELSE IF ~Includes(allIds, num[1]) THEN [ err |-> NoError, ids |-> << >> ]
           ELSE [ err |-> NoError, ids |-> << num[1] >> ]

\* parts.flatMap(...): the first part that throws ends the call
RECURSIVE FlatMapParts(_, _, _)
FlatMapParts(allIds, parts, acc) ==
  IF Len(parts) = 0 THEN [ err |-> NoError, ids |-> acc ]
  ELSE LET one == parsePart(allIds, parts[1])
       IN  IF one.err # NoError THEN [ err |-> one.err, ids |-> << >> ]
           ELSE FlatMapParts(allIds, Tail(parts), acc \o one.ids)

\* [...new Set(result)].sort((a, b) => a - b)
RECURSIVE SortedSet(_)
SortedSet(ids) ==
  IF ids = { } THEN << >>
  ELSE LET least == CHOOSE m \in ids : \A n \in ids : m <= n
       IN  << least >> \o SortedSet(ids \ { least })

parseIds(allIds, input) ==
  IF input = << >> THEN [ err |-> NoError, ids |-> allIds ]
  ELSE LET split  == Split(input, ",")
           parts  == [ k \in 1..Len(split) |-> Trim(split[k]) ]
           flat   == FlatMapParts(allIds, parts, << >>)
       IN  IF flat.err # NoError THEN flat
           ELSE [ err |-> NoError,
                  ids |-> SortedSet({ flat.ids[k] : k \in 1..Len(flat.ids) }) ]

\* parseIds called with a list of valid ids and an input
ParseIds ==
  /\ call # Absent
  /\ call[1].fn = "parseIds"
  /\ ~call[1].done
  /\ LET out == parseIds(call[1].allIds, call[1].input)
     IN  call' = Present([ call[1] EXCEPT !.done = TRUE, !.err = out.err, !.ids = out.ids ])
  /\ UNCHANGED << transcript, sectionsFile, sectionShots, shotsFile, run, result, resFiles, mediaVars >>

InitParseIds ==
  /\ transcript \in Transcripts
  /\ sectionsFile = Absent
  /\ sectionShots = [ id \in SectionIds |-> Absent ]
  /\ shotsFile = Absent
  /\ run = Absent
  /\ result = Idle
  /\ call \in { Present([ fn |-> "parseIds", allIds |-> allIds, input |-> input,
                           done |-> FALSE, err |-> NoError, ids |-> << >> ])
                 : allIds \in IdLists, input \in IdInputs }
  /\ resFiles = NoResFiles
  /\ prompts = Absent
  /\ images = Absent
  /\ job = Absent

NextParseIds == ParseIds

SpecParseIds == InitParseIds /\ [][NextParseIds]_vars

\* a number as the claim reads it: digits only, white space around them allowed
IsNumber(text) ==
  /\ Len(Trim(text)) > 0
  /\ \A k \in 1..Len(Trim(text)) : IsDigit(Trim(text)[k])

\* a part of the input is an id, or a range with one "-" whose sides are
\* numbers or empty
WellFormedPart(part) ==
  LET sides == Split(part, "-")
  IN  IF Len(sides) = 1 THEN IsNumber(part)
      ELSE /\ Len(sides) = 2
           /\ \A k \in 1..2 : sides[k] = << >> \/ IsNumber(sides[k])

\* the valid ids a well-formed part stands for
IdsOfPart(allIds, part) ==
  LET sides == Split(part, "-")
      valid == { allIds[k] : k \in 1..Len(allIds) }
  IN  IF Len(sides) = 1 THEN { DigitsValue(Trim(part)) } \cap valid
      ELSE LET from == IF sides[1] = << >> THEN 0 ELSE DigitsValue(Trim(sides[1]))
               to   == IF sides[2] = << >> THEN MaxOf(allIds) ELSE DigitsValue(Trim(sides[2]))
           IN  { id \in valid : from <= id /\ id <= to }

\* the parts of an input, white space around a part being allowed
PartsOf(input) == [ k \in 1..Len(Split(input, ",")) |-> Trim(Split(input, ",")[k]) ]

ParseIdsDone == call # Absent /\ call[1].fn = "parseIds" /\ call[1].done

\* what parseIds returns: allIds itself without an input; otherwise, when it
\* returns, an ascending duplicate-free list of valid ids, which for an input
\* of well-formed parts holds exactly the ids the parts stand for
ParseIdsReturns ==
  ParseIdsDone =>
    LET allIds == call[1].allIds
        input  == call[1].input
        ids    == call[1].ids
        parts  == PartsOf(input)
    IN  /\ input = << >> => (call[1].err = NoError /\ ids = allIds)
        /\ (input # << >> /\ call[1].err = NoError) =>
             /\ \A k \in 1..Len(ids) : Includes(allIds, ids[k])
             /\ \A k \in 1..(Len(ids) - 1) : ids[k] < ids[k + 1]
        /\ (input # << >> /\ \A k \in 1..Len(parts) : WellFormedPart(parts[k])) =>
             /\ call[1].err = NoError
             /\ { ids[k] : k \in 1..Len(ids) } =
                  UNION { IdsOfPart(allIds, parts[k]) : k \in 1..Len(parts) }

\* an input with a part that is not well-formed raises an error
MalformedInputRaises ==
  ParseIdsDone =>
    LET parts == PartsOf(call[1].input)
    IN  (call[1].input # << >> /\ \E k \in 1..Len(parts) : ~WellFormedPart(parts[k])) =>
          call[1].err # NoError

\* C28: parseIds with a non-empty input returns an ascending duplicate-free
\* list of valid ids: an unknown single id is skipped, a-b gives the valid ids
\* from a to b, a- goes up to the largest valid id, -b starts from 0; without
\* input it returns allIds; a malformed number or range raises an error.
C28_ParseIds == ParseIdsReturns /\ MalformedInputRaises

(***************************************************************************)
(* generateImages.  images.json maps a shot id to its ImageData.           *)
(***************************************************************************)
\* const batchSize = 3
batchSize == 3

\* prompt + " --ar 37:20 --q 2 --style raw --v 6.1 " + mjParams, mjParams empty
FullPrompt(prompt) == prompt \o << " --ar 37:20 --q 2 --style raw --v 6.1 " >>

OldImage(id) ==
  [ shotId |-> id, prompt |-> FullPrompt(OldPrompt), url |-> "old", width |-> 1, height |-> 1 ]

\* images.json before the run: none, an entry for every shot, one for shot 0
ImageFiles ==
  { Absent,
    Present([ id \in ShotIds |-> Present(OldImage(id)) ]),
    Present([ id \in ShotIds |-> IF id = 0 THEN Present(OldImage(id)) ELSE Absent ]) }

\* imgprompts.json before the run: none, a prompt for every shot, none for
\* shot 1, an empty one for shot 1
ImagePromptFiles ==
  { Absent,
    Present([ id \in ShotIds |-> Present(<< "p" >>) ]),
    Present([ id \in ShotIds |-> IF id = 1 THEN Absent ELSE Present(<< "p" >>) ]),
    Present([ id \in ShotIds |-> IF id = 1 THEN Present(<< >>) ELSE Present(<< "p" >>) ]) }

\* what client.Imagine and the download can do for a shot: an image, an
\* answer without uri, an error (a timeout of withTimeout included)
ImagineOutcomes ==
  { [ kind |-> "image", uri |-> "u", width |-> 2, height |-> 1 ],
    [ kind |-> "noUri", uri |-> "", width |-> 0, height |-> 0 ],
    [ kind |-> "threw", uri |-> "", width |-> 0, height |-> 0 ] }

\* a shot of the run: not yet in a batch, in flight, or settled with its
\* ImageData or with null
Waiting == [ state |-> "waiting", data |-> Absent ]
Pending == [ state |-> "pending", data |-> Absent ]
Null == [ state |-> "null", data |-> Absent ]
Image(data) == [ state |-> "image", data |-> Present(data) ]

\* !prompt
NoPrompt(id) == Stored(prompts, id) = Absent \/ Stored(prompts, id) = Present(<< >>)

\* the positions of shotsToProcess.slice(i, i + batchSize)
Batch(i, n) == (i + 1)..Min(i + batchSize, n)

ImagesJob(status, error, shotsToProcess, memory) ==
  [ op |-> "generateImages", status |-> status, error |-> error,
    shotsToProcess |-> shotsToProcess, i |-> 0, phase |-> "between",
    slots |-> [ p \in 1..Len(shotsToProcess) |-> Waiting ],
    memory |-> memory, failedShots |-> << >> ]

\* generateImages up to the loop over the batches
GenerateImagesBegin(shotIds) ==
  /\ job = Absent
  /\ shotsFile # Absent
  /\ LET allIds == [ k \in 1..Len(shotsFile[1].shots) |-> shotsFile[1].shots[k].shotId ]
         shotsToProcess == SelectSeq(allIds, LAMBDA id : id \in shotIds)
         memory == IF images = Absent THEN NoEntries ELSE images[1]
     IN  job' = Present(
           IF prompts = Absent
           THEN ImagesJob("failed", "Failed to read prompts", << >>, NoEntries)
           ELSE IF Len(shotsToProcess) = 0
           THEN ImagesJob("failed", "No matching shots found for the provided shot IDs", << >>, NoEntries)
           ELSE ImagesJob("running", "", shotsToProcess, memory))
  /\ UNCHANGED << chapterVars, shotsFile, prompts, images >>

\* the start of a batch: the callbacks of batch.map run up to their first
\* await, a shot without a prompt settles with null at once
StartBatch ==
  /\ job # Absent
  /\ job[1].op = "generateImages"
  /\ job[1].status = "running"
  /\ job[1].phase = "between"
  /\ job' = Present([ job[1] EXCEPT
       !.phase = "batch",
       !.slots = [ p \in 1..Len(job[1].shotsToProcess) |->
                     IF p \notin Batch(job[1].i, Len(job[1].shotsToProcess)) THEN @[p]
                     ELSE IF NoPrompt(job[1].shotsToProcess[p]) THEN Null ELSE Pending ] ])
  /\ UNCHANGED << chapterVars, shotsFile, prompts, images >>

\* the callback of a shot in flight settles
ImageSettles(p, outcome) ==
  /\ job # Absent
  /\ job[1].op = "generateImages"
  /\ job[1].status = "running"
  /\ job[1].phase = "batch"
  /\ p \in 1..Len(job[1].shotsToProcess)
  /\ job[1].slots[p] = Pending
  /\ LET shotId == job[1].shotsToProcess[p]
     IN  job' = Present(
           IF outcome.kind = "image"
           THEN [ job[1] EXCEPT !.slots[p] =
                    Image([ shotId |-> shotId, prompt |-> FullPrompt(prompts[1][shotId][1]),
                            url |-> outcome.uri, width |-> outcome.width,
                            height |-> outcome.height ]) ]
           ELSE IF outcome.kind = "noUri"
           THEN [ job[1] EXCEPT !.slots[p] = Null ]
           ELSE [ job[1] EXCEPT !.slots[p] = Null, !.failedShots = Append(@, shotId) ])
  /\ UNCHANGED << chapterVars, shotsFile, prompts, images >>

\* variant: a batch without an image does not end the run
EndBatch_GoesOnAfterFailure ==
  /\ job # Absent
  /\ job[1].op = "generateImages"
  /\ job[1].status = "running"
  /\ job[1].phase = "batch"
  /\ LET n      == Len(job[1].shotsToProcess)
         batch  == Batch(job[1].i, n)
         memory == [ id \in ShotIds |->
                      IF \E p \in batch : job[1].slots[p].state = "image" /\ job[1].shotsToProcess[p] = id
                      THEN job[1].slots[CHOOSE p \in batch :
                             job[1].slots[p].state = "image" /\ job[1].shotsToProcess[p] = id].data
                      ELSE job[1].memory[id] ]
     IN  /\ \A p \in batch : job[1].slots[p] # Pending
         /\ images' = IF \A p \in batch : job[1].slots[p] = Null THEN images ELSE Present(memory)
         /\ job' = Present([ job[1] EXCEPT
                 !.memory = memory,
                 !.i = @ + batchSize,
                 !.phase = "between",
                 !.status = IF job[1].i + batchSize < n THEN "running" ELSE "done" ])
  /\ UNCHANGED << chapterVars, shotsFile, prompts >>

\* what follows Promise.all of a batch: the run returns when every result is
\* null; otherwise the results are put in images, images.json is written and
\* the loop goes on
EndBatch ==
  /\ job # Absent
  /\ job[1].op = "generateImages"
  /\ job[1].status = "running"
  /\ job[1].phase = "batch"
  /\ LET n      == Len(job[1].shotsToProcess)
         batch  == Batch(job[1].i, n)
         memory == [ id \in ShotIds |->
                      IF \E p \in batch : job[1].slots[p].state = "image" /\ job[1].shotsToProcess[p] = id
                      THEN job[1].slots[CHOOSE p \in batch :
                             job[1].slots[p].state = "image" /\ job[1].shotsToProcess[p] = id].data
                      ELSE job[1].memory[id] ]
     IN  /\ \A p \in batch : job[1].slots[p] # Pending
         /\ IF \A p \in batch : job[1].slots[p] = Null
            THEN /\ job' = Present([ job[1] EXCEPT !.status = "done", !.phase = "returned" ])
                 /\ UNCHANGED images
            ELSE /\ images' = Present(memory)
                 /\ job' = Present([ job[1] EXCEPT
                         !.memory = memory,
                         !.i = @ + batchSize,
                         !.phase = "between",
                         !.status = IF job[1].i + batchSize < n THEN "running" ELSE "done" ])
  /\ UNCHANGED << chapterVars, shotsFile, prompts >>

InitImages ==
  /\ transcript \in Transcripts
  /\ sectionsFile = Absent
  /\ sectionShots = [ id \in SectionIds |-> Absent ]
  /\ shotsFile = Present(MediaShots)
  /\ run = Absent
  /\ result = Idle
  /\ call = Absent
  /\ resFiles = NoResFiles
  /\ prompts \in ImagePromptFiles
  /\ images \in ImageFiles
  /\ job = Absent

NextImages ==
  \/ \E shotIds \in SUBSET SelectableIds : GenerateImagesBegin(shotIds)
  \/ StartBatch
  \/ \E p \in 1..NumShots, outcome \in ImagineOutcomes : ImageSettles(p, outcome)
  \/ EndBatch

SpecImages == InitImages /\ [][NextImages]_vars

\* the number of the batch of a position of the selection
BatchOf(p) == (p - 1) \div batchSize

ImagesRun == job # Absent /\ job[1].op = "generateImages" /\ job[1].status \in { "running", "done" }

\* at most batchSize shots are in flight; a shot has left the waiting state
\* only if every shot of the earlier batches has settled and each earlier
\* batch has given an image
BatchesInOrder ==
  ImagesRun =>
    LET slots == job[1].slots
        n     == Len(slots)
    IN  /\ Cardinality({ p \in 1..n : slots[p] = Pending }) <= batchSize
        /\ \A q \in 1..n : slots[q] # Waiting =>
             /\ \A p \in 1..n : BatchOf(p) < BatchOf(q) => slots[p].state \in { "image", "null" }
             /\ \A b \in 0..(BatchOf(q) - 1) :
                  \E p \in 1..n : BatchOf(p) = b /\ slots[p].state = "image"
             /\ \A p \in 1..n : BatchOf(p) = BatchOf(q) => slots[p] # Waiting

\* images.json changes only in the step after a batch with a success, and
\* then gets the ImageData of the successes and keeps every other entry
ImagesWrittenAfterSuccess ==
  LET n     == Len(job[1].shotsToProcess)
      batch == Batch(job[1].i, n)
      wins  == { p \in batch : job[1].slots[p].state = "image" }
      ends  == /\ job # Absent
               /\ job[1].op = "generateImages"
               /\ job[1].status = "running"
               /\ job[1].phase = "batch"
               /\ job'[1].phase # "batch"
  IN  /\ images' # images => (ends /\ wins # { })
      /\ (ends /\ wins # { }) =>
           \A id \in ShotIds :
             IF \E p \in wins : job[1].shotsToProcess[p] = id
             THEN \E p \in wins : job[1].shotsToProcess[p] = id /\ Stored(images', id) = job[1].slots[p].data
             ELSE Stored(images', id) = Stored(images, id)
      /\ (ends /\ wins = { }) => job'[1].status = "done"

\* C30: the selected shots are processed in consecutive batches of at most
\* batchSize in list order, a batch starting only when the batch before it
\* has settled; a batch without an image ends the run; images.json is
\* written only after a batch with a success and then holds what it held
\* plus the successes.
C30_BatchesAndWrites == [] BatchesInOrder /\ [][ImagesWrittenAfterSuccess]_vars

\* a run over four shots: the first batch gave an image for shot 0 and none
\* for shot 1, the second batch gave none and ended the run; images.json has
\* the new entry of shot 0 and still the old entry of shot 1
C30_Witness ==
  /\ job # Absent
  /\ job[1].op = "generateImages"
  /\ job[1].status = "done"
  /\ job[1].shotsToProcess = << 0, 1, 2, 3 >>
  /\ job[1].slots[1].state = "image"
  /\ job[1].slots[2] = Null
  /\ job[1].slots[4] = Null
  /\ Stored(images, 0) = job[1].slots[1].data
  /\ Stored(images, 1) = Present(OldImage(1))

====
